---- MODULE Spec2Model ----
(***************************************************************************)
(* df_websockets: signal registry, argument validation, trigger fan-out,   *)
(* worker backends and job execution.                                      *)
(*                                                                         *)
(* Python values are modelled as strings: NoneV is None, "str:1" is the    *)
(* JSON string "1", "int:1" the integer 1, and so on (see Values).         *)
(***************************************************************************)
EXTENDS Integers, Sequences, FiniteSets, TLC

NoneV == "<None>"

\* ------------------------------------------------------------------------
\* constants.py / ws_settings.py
WORKER_CELERY == "celery"
WORKER_CHANNEL == "channels"
WORKER_PROCESS == "process"
WORKER_THREAD == "thread"
WorkerModes == {WORKER_CELERY, WORKER_CHANNEL, WORKER_PROCESS, WORKER_THREAD}

WEBSOCKET_DEFAULT_QUEUE == "celery"

\* WINDOW_INFO_MIDDLEWARES: "default" is the four middlewares of
\* ws_middleware.py (none of them defines before_process); "hooked" is a
\* project list whose classes all define before_process as a no-op.
MiddlewareSets == {"default", "hooked"}

\* ------------------------------------------------------------------------
\* tasks.py: special values of the "to" argument
SERVER == "SERVER"
SESSION == "SESSION"
WINDOW == "WINDOW"
USER == "USER"
BROADCAST == "BROADCAST"
SYNC == "SYNC"
\* a django.db.models.Model instance used as a topic ("app.model", pk 1)
ENTITY == "ENTITY"

\* ------------------------------------------------------------------------
\* Values carried by kwargs
V_STR1 == "str:1"
V_STRX == "str:x"
V_INT1 == "int:1"
V_LIST == "list:[{}]"
V_OBJ == "object"
V_FORM == "Form"
Values == {V_STR1, V_STRX, V_INT1, V_LIST, V_OBJ, V_FORM}

\* json.dumps(value, cls=DjangoJSONEncoder) succeeds
JsonSerializable(v) == v \notin {V_OBJ, V_FORM}

KwargsSerializable(kwargs) == \A k \in DOMAIN kwargs : JsonSerializable(kwargs[k])

\* Applying an annotation to a value: [exc, val]; exc = NoneV when it returns.
\* "int" is the builtin; "SerializedForm" is utils.SerializedForm(form_cls),
\* which reads obj["name"] for each obj of the value.
Coerce(annotation, v) ==
    IF annotation = "int"
    THEN IF v \in {V_STR1, V_INT1} THEN [exc |-> NoneV, val |-> V_INT1]
         ELSE IF v = V_STRX THEN [exc |-> "ValueError", val |-> v]
         ELSE [exc |-> "TypeError", val |-> v]
    ELSE IF annotation = "SerializedForm"
    THEN IF v = V_LIST THEN [exc |-> "KeyError", val |-> v]
         ELSE [exc |-> "TypeError", val |-> v]
    ELSE [exc |-> NoneV, val |-> v]

\* ------------------------------------------------------------------------
\* decorators.py: queues
RANDOM == "RandomDynamicQueueName"
RandomQueues == {"r0", "r1"}

QueueNames == {"celery", "fast"} \cup RandomQueues

\* variant: Connection.get_queue always answers the default queue
get_queue_default(connection, pick) == WEBSOCKET_DEFAULT_QUEUE

\* Connection.get_queue; pick is the value random.randint selects
get_queue(connection, pick) ==
    IF connection.queue = RANDOM THEN pick ELSE connection.queue

\* decorators.py: is_allowed_to predicates, on a deserialized WindowInfo
\* variant: the predicate lets every caller in
server_side_open(window_info) == TRUE

server_side(window_info) == FALSE
everyone(window_info) == TRUE
is_authenticated(window_info) == window_info.is_authenticated = "True"

is_allowed_to(connection, window_info) ==
    IF connection.is_allowed_to = "server_side" THEN server_side(window_info)
    ELSE IF connection.is_allowed_to = "everyone" THEN everyone(window_info)
    ELSE is_authenticated(window_info)

\* ------------------------------------------------------------------------
\* decorators.py: Connection.signature_check.  params is the parameter list
\* of the decorated function, each [name, kind, has_default, annotation]
\* with kind in {"plain", "VAR_KEYWORD", "VAR_POSITIONAL"} and annotation
\* "empty", a callable ("int", "SerializedForm") or "not-callable".
required_function_arg == "window_info"

IsCallableAnnotation(a) == a \in {"int", "SerializedForm"}

RECURSIVE signature_scan(_, _, _)
signature_scan(params, i, acc) ==
    IF i > Len(params) THEN acc
    ELSE LET p == params[i] IN
         IF p.name = required_function_arg
         THEN signature_scan(params, i + 1, [acc EXCEPT !.required_arg_is_present = TRUE])
         ELSE IF p.kind = "VAR_KEYWORD"
         THEN signature_scan(params, i + 1, [acc EXCEPT !.accept_kwargs = TRUE])
         ELSE IF p.kind = "VAR_POSITIONAL"
         THEN [acc EXCEPT !.exc = "ValueError"]
         ELSE LET types == IF IsCallableAnnotation(p.annotation)
                           THEN Append(acc.argument_types, <<p.name, p.annotation>>)
                           ELSE acc.argument_types
              IN IF ~p.has_default
                 THEN signature_scan(params, i + 1,
                        [acc EXCEPT !.required_arguments_names = @ \cup {p.name},
                                    !.accepted_argument_names = @ \cup {p.name},
                                    !.argument_types = types])
                 ELSE signature_scan(params, i + 1,
                        [acc EXCEPT !.optional_arguments_names = @ \cup {p.name},
                                    !.accepted_argument_names = @ \cup {p.name},
                                    !.argument_types = types])

\* variant: a parameter with a default value is recorded as required too
signature_check_all_required(params) ==
    LET r == signature_scan(params, 1,
                [exc |-> NoneV, required_arg_is_present |-> FALSE,
                 accept_kwargs |-> FALSE, argument_types |-> <<>>,
                 required_arguments_names |-> {}, optional_arguments_names |-> {},
                 accepted_argument_names |-> {}])
    IN IF r.exc = NoneV /\ ~r.required_arg_is_present
       THEN [r EXCEPT !.exc = "ValueError"]
       ELSE [r EXCEPT !.required_arguments_names = r.accepted_argument_names]

signature_check(params) ==
    LET r == signature_scan(params, 1,
                [exc |-> NoneV, required_arg_is_present |-> FALSE,
                 accept_kwargs |-> FALSE, argument_types |-> <<>>,
                 required_arguments_names |-> {}, optional_arguments_names |-> {},
                 accepted_argument_names |-> {}])
    IN IF r.exc = NoneV /\ ~r.required_arg_is_present
       THEN [r EXCEPT !.exc = "ValueError"] ELSE r

\* the path regular expression of Connection.__init__
ValidPaths == {"s1", "s2"}
IsValidPath(path) == path \in ValidPaths

\* Connection.__init__: [exc, connection].  fn is [params, body]; a None
\* queue reads ws_settings.CELERY_DEFAULT_QUEUE, a name ws_settings does
\* not define.
NoConnection == [path |-> NoneV]

\* variant: the signature of the function is not checked
Connection_without_signature_check(fn, path, allowed, queue) ==
    IF ~IsValidPath(path) THEN [exc |-> "ValueError", connection |-> NoConnection]
    ELSE IF queue = NoneV THEN [exc |-> "AttributeError", connection |-> NoConnection]
    ELSE [exc |-> NoneV,
          connection |->
            [path |-> path, is_allowed_to |-> allowed, queue |-> queue,
             accept_kwargs |-> FALSE, argument_types |-> <<>>,
             required_arguments_names |-> {}, optional_arguments_names |-> {},
             accepted_argument_names |-> {}, body |-> fn.body]]

Connection(fn, path, allowed, queue) ==
    IF ~IsValidPath(path) THEN [exc |-> "ValueError", connection |-> NoConnection]
    ELSE IF queue = NoneV THEN [exc |-> "AttributeError", connection |-> NoConnection]
    ELSE LET sig == signature_check(fn.params) IN
         IF sig.exc # NoneV THEN [exc |-> sig.exc, connection |-> NoConnection]
         ELSE [exc |-> NoneV,
               connection |->
                 [path |-> path, is_allowed_to |-> allowed, queue |-> queue,
                  accept_kwargs |-> sig.accept_kwargs,
                  argument_types |-> sig.argument_types,
                  required_arguments_names |-> sig.required_arguments_names,
                  optional_arguments_names |-> sig.optional_arguments_names,
                  accepted_argument_names |-> sig.accepted_argument_names,
                  body |-> fn.body]]

\* ------------------------------------------------------------------------
\* decorators.py: Connection.check.  The kwargs dict is updated in place,
\* so the result carries the dict as the call leaves it:
\* [status, kwargs, exc] with status "ok" (kwargs returned), "None" or "raise".
RECURSIVE check_types(_, _, _)
check_types(types, i, kwargs) ==
    IF i > Len(types) THEN [status |-> "ok", kwargs |-> kwargs, exc |-> NoneV]
    ELSE LET k == types[i][1] IN
         IF k \notin DOMAIN kwargs THEN check_types(types, i + 1, kwargs)
         ELSE LET r == Coerce(types[i][2], kwargs[k]) IN
              IF r.exc \in {"ValueError", "TypeError"}
              THEN [status |-> "None", kwargs |-> kwargs, exc |-> NoneV]
              ELSE IF r.exc # NoneV
              THEN [status |-> "raise", kwargs |-> kwargs, exc |-> r.exc]
              ELSE check_types(types, i + 1, [kwargs EXCEPT ![k] = r.val])

check(connection, kwargs) ==
    LET r == check_types(connection.argument_types, 1, kwargs) IN
    IF r.status # "ok" THEN r
    ELSE IF \E k \in connection.required_arguments_names : k \notin DOMAIN r.kwargs
    THEN [r EXCEPT !.status = "None"]
    ELSE IF ~connection.accept_kwargs
            /\ \E k \in DOMAIN r.kwargs : k \notin connection.accepted_argument_names
    THEN [r EXCEPT !.status = "None"]
    ELSE r

\* ------------------------------------------------------------------------
\* window_info.py / ws_middleware.py.  A request is
\* [kind, window_key, user_pk, is_staff, is_superuser] with kind "None",
\* "WindowInfo" (already a WindowInfo, returned as-is) or "HttpRequest";
\* user_pk is NoneV for an anonymous user.
Str(v) == IF v = NoneV THEN "None" ELSE v

WindowInfo_from_request(request) ==
    IF request.kind = "None"
    THEN [window_key |-> NoneV, user_pk |-> NoneV, is_superuser |-> FALSE,
          is_staff |-> FALSE, user_set |-> FALSE, is_authenticated |-> "<unset>"]
    ELSE [window_key |-> request.window_key, user_pk |-> request.user_pk,
          is_superuser |-> request.user_pk # NoneV /\ request.is_superuser,
          is_staff |-> request.user_pk # NoneV /\ request.is_staff,
          user_set |-> request.kind = "HttpRequest" /\ request.user_pk # NoneV,
          is_authenticated |-> "<unset>"]

WindowInfo_to_dict(window_info) ==
    [window_key |-> window_info.window_key, user_pk |-> window_info.user_pk,
     is_superuser |-> window_info.is_superuser, is_staff |-> window_info.is_staff,
     user_set |-> window_info.user_set]

WindowInfo_from_dict(values) ==
    [window_key |-> values.window_key, user_pk |-> values.user_pk,
     is_superuser |-> values.is_superuser, is_staff |-> values.is_staff,
     user_set |-> values.user_set,
     is_authenticated |-> IF values.user_pk # NoneV THEN "True" ELSE "False"]

\* ------------------------------------------------------------------------
\* topics.py: serialize_topic.  The context is a WindowInfo record or
\* NoWindowInfo (None); _trigger_signal_async and set_websocket_topics
\* always pass a WindowInfo.
NoWindowInfo == [none |-> TRUE]
IsNoWindowInfo(window_info) == "none" \in DOMAIN window_info

serialize_topic(window_info, obj) ==
    IF obj = BROADCAST THEN "-broadcast"
    ELSE IF obj = WINDOW
    THEN IF IsNoWindowInfo(window_info) THEN NoneV
         ELSE "-window." \o Str(window_info.window_key)
    ELSE IF obj = ENTITY THEN "-app.model.1"
    ELSE IF obj = USER
    THEN IF IsNoWindowInfo(window_info) THEN NoneV
         ELSE "-auth.user." \o Str(window_info.user_pk)
    ELSE "-Constant.hash(" \o obj \o ")"

\* utils.py: valid_topic_name, the hex digest of the topic
valid_topic_name(x) == "sha256(" \o x \o ")"

\* ------------------------------------------------------------------------
\* Events of one call, in the order the code produces them
Submitted(job, options) == [type |-> "submit", job |-> job, options |-> options]
Published(group, signal_name, kwargs) ==
    [type |-> "publish", group |-> group,
     message |-> [signal |-> signal_name, opts |-> kwargs, signal_id |-> "uuid4"]]
Invoked(signal_name, i, kwargs, queue) ==
    [type |-> "invoke", signal |-> signal_name, index |-> i, kwargs |-> kwargs,
     queue |-> queue]
Logged(exc) == [type |-> "logger.exception", exc |-> exc]

\* ------------------------------------------------------------------------
\* tasks.py: process_task.  picks[i] is what a RandomDynamicQueueName of
\* connection i returns at this evaluation.  Result: [events, kwargs, exc],
\* kwargs being the dict as the call leaves it.
Picks(conns) ==
    {f \in [1..Len(conns) -> RandomQueues] :
        \A i \in 1..Len(conns) : conns[i].queue # RANDOM => f[i] = "r0"}

\* mdw.before_process(window_info) for each configured middleware
before_process(middlewares) ==
    IF middlewares = "default" THEN "AttributeError" ELSE NoneV

\* lines 373-383: the loop over the connections of the signal;
\* acc is [events, kwargs, exc]
RECURSIVE run_connections(_, _, _, _, _, _)
run_connections(conns, i, window_info, job, picks, acc) ==
    IF i > Len(conns) THEN acc
    ELSE LET connection == conns[i] IN
         IF get_queue(connection, picks[i]) # job.queue
            \/ (job.from_client /\ ~is_allowed_to(connection, window_info))
         THEN run_connections(conns, i + 1, window_info, job, picks, acc)
         ELSE LET r == check(connection, acc.kwargs) IN
              IF r.status = "raise"
              THEN [acc EXCEPT !.kwargs = r.kwargs, !.exc = r.exc]
              ELSE IF r.status = "None"
              THEN run_connections(conns, i + 1, window_info, job, picks,
                                   [acc EXCEPT !.kwargs = r.kwargs])
              ELSE LET ev == Append(acc.events,
                                    Invoked(job.signal_name, i, r.kwargs, job.queue))
                   IN IF connection.body = "raise"
                      THEN [events |-> ev, kwargs |-> r.kwargs, exc |-> "Exception"]
                      ELSE run_connections(conns, i + 1, window_info, job, picks,
                                           [events |-> ev, kwargs |-> r.kwargs,
                                            exc |-> NoneV])

\* lines 360-383, the body of the try block.  _call_ws_signal(...) at line
\* 364 builds a coroutine that is never awaited: it sends nothing and
\* raises nothing.
process_task_try(registry, middlewares, job, picks) ==
    LET window_info == WindowInfo_from_dict(job.window_info_dict)
        hook == before_process(middlewares)
        start == [events |-> <<>>, kwargs |-> job.kwargs, exc |-> NoneV]
    IN IF hook # NoneV THEN [start EXCEPT !.exc = hook]
       ELSE IF ~job.to_server \/ registry[job.signal_name] = <<>> THEN start
       ELSE run_connections(registry[job.signal_name], 1, window_info, job, picks, start)

\* lines 384-385: except Exception as e: logger.exception(e)
\* variant: no except clause, the exception leaves process_task
except_Exception_absent(r) == r

except_Exception(r) ==
    IF r.exc # NoneV
    THEN [r EXCEPT !.events = Append(@, Logged(r.exc)), !.exc = NoneV]
    ELSE r

\* variant: a job that invoked no handler reports it
report_unmatched(r) ==
    IF r.events = <<>> THEN [r EXCEPT !.events = <<Logged("LookupError")>>] ELSE r

process_task_reporting_unmatched(registry, middlewares, job, picks) ==
    report_unmatched(except_Exception(process_task_try(registry, middlewares, job, picks)))

process_task(registry, middlewares, job, picks) ==
    except_Exception(process_task_try(registry, middlewares, job, picks))

\* ------------------------------------------------------------------------
\* tasks.py: call_task.  NoneV when the job is handed to the backend, else
\* the exception raised instead.  apply_async of the Celery task
\* (serializer="json") encodes the arguments before publishing them; a
\* channel layer encodes them or not (layer_encodes: the Redis layer does,
\* the in-memory layer does not); a pool takes the objects as they are.
call_task(worker_mode, signal_args, layer_encodes) ==
    IF worker_mode = WORKER_CELERY
    THEN IF KwargsSerializable(signal_args.kwargs) THEN NoneV ELSE "EncodeError"
    ELSE IF worker_mode = WORKER_CHANNEL
    THEN IF layer_encodes /\ ~KwargsSerializable(signal_args.kwargs)
         THEN "TypeError" ELSE NoneV
    ELSE IF worker_mode \in {WORKER_THREAD, WORKER_PROCESS} THEN NoneV
    ELSE "ImproperlyConfigured"

\* ------------------------------------------------------------------------
\* tasks.py: _trigger_signal_async, step by step.
\* `to` is [shape, items]: shape "none" (to=None), "bare" (one object, in
\* items[1]) or "list".

\* lines 223-227 and the iteration of line 236
normalize_to(to) ==
    IF to.shape = "bare"
    THEN IF to.items[1] \in {SERVER, WINDOW, USER, BROADCAST}
         THEN [exc |-> NoneV, items |-> to.items]
         ELSE [exc |-> "TypeError", items |-> <<>>]
    ELSE IF to.shape = "none" THEN [exc |-> NoneV, items |-> <<USER>>]
    ELSE [exc |-> NoneV, items |-> to.items]

\* lines 232-248
RECURSIVE client_topics(_, _, _)
client_topics(window_info, items, i) ==
    IF i > Len(items) THEN <<>>
    ELSE IF items[i] \in {SERVER, SYNC} THEN client_topics(window_info, items, i + 1)
    ELSE <<serialize_topic(window_info, items[i])>>
         \o client_topics(window_info, items, i + 1)

InList(x, items) == \E i \in 1..Len(items) : items[i] = x

\* lines 249-255: only truthy options are kept (None and 0 are not)
Truthy(v) == v \notin {NoneV, "0"}
OptionNames == {"expires", "eta", "countdown"}
\* variant: eta is not looked at
celery_options_without_eta(opts) == {k \in {"expires", "countdown"} : opts[k] \notin {NoneV, "0"}}

celery_options(opts) == {k \in OptionNames : Truthy(opts[k])}

\* variant: the default queue always receives a job
trigger_queues_with_default(conns, picks) ==
    {WEBSOCKET_DEFAULT_QUEUE} \cup {get_queue(conns[i], picks[i]) : i \in 1..Len(conns)}

\* lines 261-264
trigger_queues(conns, picks) ==
    {get_queue(conns[i], picks[i]) : i \in 1..Len(conns)}

\* the orders in which a set of queues can be iterated
SeqsOf(S) == {f \in [1..Cardinality(S) -> S] : \A q \in S : \E i \in DOMAIN f : f[i] = q}

Job(signal_name, window_info_dict, kwargs, from_client, topics, to_server, queue) ==
    [signal_name |-> signal_name, window_info_dict |-> window_info_dict,
     kwargs |-> kwargs, from_client |-> from_client,
     serialized_client_topics |-> topics, to_server |-> to_server, queue |-> queue]

\* lines 273-282: process_task in-process for each queue; acc is
\* [events, kwargs, exc]
synced_after(acc, r) ==
    [events |-> acc.events \o r.events, kwargs |-> r.kwargs, exc |-> r.exc]

RECURSIVE sync_loop(_, _, _, _, _, _, _)
sync_loop(registry, middlewares, proto, order, sync_picks, i, acc) ==
    IF i > Len(order) \/ acc.exc # NoneV THEN acc
    ELSE sync_loop(registry, middlewares, proto, order, sync_picks, i + 1,
             synced_after(acc,
                 process_task(registry, middlewares,
                     [proto EXCEPT !.kwargs = acc.kwargs, !.queue = order[i]],
                     sync_picks[order[i]])))

\* lines 286-290: the client topics go with the job of the default queue
job_topics(queue, background_client_topics) ==
    IF queue = WEBSOCKET_DEFAULT_QUEUE THEN background_client_topics ELSE <<>>

\* lines 284-300
RECURSIVE submit_loop(_, _, _, _, _, _, _)
submit_loop(worker_mode, proto, background_client_topics, options, order, layer_encodes, acc) ==
    IF acc.i > Len(order) THEN acc
    ELSE LET queue == order[acc.i]
             job == [proto EXCEPT !.kwargs = acc.kwargs,
                       !.serialized_client_topics =
                           job_topics(queue, background_client_topics),
                       !.queue = queue]
             e == call_task(worker_mode, job, layer_encodes)
         IN IF e # NoneV THEN [acc EXCEPT !.exc = e]
            ELSE submit_loop(worker_mode, proto, background_client_topics, options,
                             order, layer_encodes,
                             [acc EXCEPT !.events = Append(@, Submitted(job, options)),
                                         !.i = @ + 1])

\* lines 301-303 and _call_ws_signal: one json.dumps, then one group_send
\* per topic
RECURSIVE group_sends(_, _, _, _)
group_sends(signal_name, topics, kwargs, i) ==
    IF i > Len(topics) THEN <<>>
    ELSE <<Published(valid_topic_name(topics[i]), signal_name, kwargs)>>
         \o group_sends(signal_name, topics, kwargs, i + 1)

\* variant: nothing is sent to the groups
call_ws_signal_silent(signal_name, topics, kwargs) ==
    IF ~KwargsSerializable(kwargs)
    THEN [exc |-> "TypeError", events |-> <<>>]
    ELSE [exc |-> NoneV, events |-> <<>>]

call_ws_signal(signal_name, topics, kwargs) ==
    IF ~KwargsSerializable(kwargs)
    THEN [exc |-> "TypeError", events |-> <<>>]
    ELSE [exc |-> NoneV, events |-> group_sends(signal_name, topics, kwargs, 1)]

\* The whole call.  cfg is [worker_mode, middlewares]; nd holds the choices
\* the call leaves open: picks (random queues at line 262), order (iteration
\* order of the queue set), sync_picks (random queues inside each in-process
\* process_task), layer_encodes.  Result: [exc, events, kwargs].

\* lines 301-303: the immediate publish, after the jobs (sent) are submitted
trigger_publish(signal_name, serialized_client_topics, options, sent) ==
    IF sent.exc # NoneV THEN sent
    ELSE IF serialized_client_topics # <<>> /\ options = {}
    THEN [events |-> sent.events
                     \o call_ws_signal(signal_name, serialized_client_topics,
                                       sent.kwargs).events,
          kwargs |-> sent.kwargs,
          exc |-> call_ws_signal(signal_name, serialized_client_topics, sent.kwargs).exc]
    ELSE sent

\* lines 284-300: one job per queue, after the in-process calls (synced)
trigger_submit(cfg, proto, to_server, background_client_topics, options, nd, synced) ==
    IF to_server /\ synced.exc = NoneV
    THEN submit_loop(cfg.worker_mode, proto, background_client_topics, options,
                     nd.order, nd.layer_encodes,
                     [events |-> synced.events, kwargs |-> synced.kwargs,
                      exc |-> NoneV, i |-> 1])
    ELSE synced

\* lines 273-282
trigger_sync(cfg, registry, proto, to_sync, nd) ==
    IF to_sync
    THEN sync_loop(registry, cfg.middlewares, proto, nd.order, nd.sync_picks, 1,
                   [events |-> <<>>, kwargs |-> proto.kwargs, exc |-> NoneV])
    ELSE [events |-> <<>>, kwargs |-> proto.kwargs, exc |-> NoneV]

Outcome(r) == [events |-> r.events, kwargs |-> r.kwargs, exc |-> r.exc]

\* lines 249-303, for the topics and the options of the call
trigger_dispatch(cfg, registry, proto, items, serialized_client_topics, options, nd) ==
    IF options # {} /\ cfg.worker_mode # WORKER_CELERY
    THEN [events |-> <<>>, kwargs |-> proto.kwargs, exc |-> "ValueError"]
    ELSE Outcome(trigger_publish(proto.signal_name, serialized_client_topics, options,
             trigger_submit(cfg, proto,
                 InList(SERVER, items) \/ (options # {} /\ serialized_client_topics # <<>>),
                 IF options # {} THEN serialized_client_topics ELSE <<>>,
                 options, nd,
                 trigger_sync(cfg, registry, proto, InList(SYNC, items), nd))))

\* lines 201-248, for the normalised `to`
trigger_topics(cfg, registry, window_info, signal_name, norm, kwargs, opts, from_client, nd) ==
    IF norm.exc # NoneV
    THEN [events |-> <<>>, kwargs |-> kwargs, exc |-> norm.exc]
    ELSE trigger_dispatch(cfg, registry,
             Job(signal_name, WindowInfo_to_dict(window_info), kwargs, from_client,
                 <<>>, TRUE, NoneV),
             norm.items, client_topics(window_info, norm.items, 1),
             celery_options(opts), nd)

trigger_signal_async(cfg, registry, request, signal_name, to, kwargs, opts, from_client, nd) ==
    trigger_topics(cfg, registry, WindowInfo_from_request(request), signal_name,
                   normalize_to(to), kwargs, opts, from_client, nd)

\* variant: a deferred call does not add the default queue
dispatch_queues_without_default(registry, signal_name, to, opts, request, picks) ==
    trigger_queues(registry[signal_name], picks)

\* the queues of lines 261-270, for the choices of nd
dispatch_queues(registry, signal_name, to, opts, request, picks) ==
    LET norm == normalize_to(to)
        topics == client_topics(WindowInfo_from_request(request), norm.items, 1)
    IN trigger_queues(registry[signal_name], picks)
       \cup (IF celery_options(opts) # {} /\ topics # <<>>
             THEN {WEBSOCKET_DEFAULT_QUEUE} ELSE {})

\* ========================================================================
\* The state machine
VARIABLES
    WEBSOCKET_WORKERS,        \* ws_settings: the worker backend
    WINDOW_INFO_MIDDLEWARES,  \* ws_settings: the configured middleware list
    REGISTERED_SIGNALS,       \* decorators.py: path -> list of connections
    REGISTERED_FUNCTIONS,     \* decorators.py: path -> connection
    submitted,                \* jobs handed to the backend and not yet run
    cache,                    \* the Django cache: cache key -> stored topics
    last,                     \* the last call: its arguments, events, exception
    pc,                       \* each thread's position in the code it executes
    lru_cache,                \* tasks.py line 408: the result of the discovery is cached
    sys_modules,              \* the interpreter's table of imported modules
    consumer,                 \* consumers.py: the DFConsumer of one websocket connection
    layer_groups,             \* the channel layer: the groups the connection is a member of
    PROCESS_POOLS,            \* tasks.py _PROCESS_POOLS: queue name -> <<pool>>, <<>> if absent
    log                       \* what the threads did, in order

\* the state of the process that the threads of one process share
connVars == <<consumer, layer_groups>>
procVars == <<pc, lru_cache, sys_modules, PROCESS_POOLS, log, connVars>>

vars == <<WEBSOCKET_WORKERS, WINDOW_INFO_MIDDLEWARES, REGISTERED_SIGNALS,
          REGISTERED_FUNCTIONS, submitted, cache, last, connVars, procVars>>

cfg == [worker_mode |-> WEBSOCKET_WORKERS, middlewares |-> WINDOW_INFO_MIDDLEWARES]

\* bounds of the model
MaxHandlers == 2
MaxTo == 2
MaxThreads == 2

SignalNames == {"s1", "s2"}

NoCall == [op |-> "none", exc |-> NoneV, events |-> <<>>]

\* ws_settings.WEBSOCKET_CACHE_PREFIX, and the key of tasks.py line 118
WEBSOCKET_CACHE_PREFIX == "df_ws"
cache_key(window_key) == WEBSOCKET_CACHE_PREFIX \o Str(window_key)
WindowKeys == {"k1", "k2"}
CacheKeys == {cache_key(k) : k \in WindowKeys \cup {NoneV}}
\* a cache entry is [present, topics]; nothing is stored at start
NoEntry == [present |-> FALSE, topics |-> {}]
EmptyCache == [k \in CacheKeys |-> NoEntry]

\* the threads of one process, and the application modules that
\* import_signals_and_functions imports (tasks.py lines 428-440), in the
\* order of apps.app_configs
Threads == 1..MaxThreads
Modules == <<"app1.signals", "app1.forms", "app2.signals">>
ModuleNames == {Modules[i] : i \in 1..Len(Modules)}
Idle == [at |-> "idle", i |-> 0]
\* consumers.py lines 68-71: DFConsumer.__init__ (window_info None, no
\* topics); state is "new", then "open" once accepted, "failed" when
\* connect raised, "closed" after disconnect; frames are those sent
NewConsumer == [state |-> "new", window_key |-> NoneV, topics |-> {}, frames |-> <<>>]
InitProc ==
    /\ pc = [t \in Threads |-> Idle]
    /\ lru_cache = FALSE
    /\ sys_modules = [m \in ModuleNames |-> [state |-> "absent", owner |-> 0]]
    /\ PROCESS_POOLS = [q \in QueueNames |-> <<>>]
    /\ consumer = NewConsumer
    /\ layer_groups = {}
    /\ log = <<>>

Init ==
    /\ WEBSOCKET_WORKERS \in WorkerModes
    /\ WINDOW_INFO_MIDDLEWARES \in MiddlewareSets
    /\ REGISTERED_SIGNALS = [p \in ValidPaths |-> <<>>]
    /\ REGISTERED_FUNCTIONS = [p \in ValidPaths |-> NoConnection]
    /\ submitted = <<>>
    /\ cache = EmptyCache
    /\ last = NoCall
    /\ InitProc

NbHandlers == Len(REGISTERED_SIGNALS["s1"]) + Len(REGISTERED_SIGNALS["s2"])

\* Handlers are registered when the application modules are imported; a
\* behaviour then follows one call and the jobs it submits.
Startup == last.op \in {"none", "signal", "function"}

\* decorators.py: the signal decorator (Connection.__init__, then register)
Register(fn, path, allowed, queue) ==
    /\ Startup
    /\ NbHandlers < MaxHandlers
    /\ \E r \in {Connection(fn, path, allowed, queue)} :
       /\ REGISTERED_SIGNALS' =
             IF r.exc = NoneV
             THEN [REGISTERED_SIGNALS EXCEPT ![path] = Append(@, r.connection)]
             ELSE REGISTERED_SIGNALS
       /\ last' = [op |-> "signal", exc |-> r.exc, events |-> <<>>,
                   fn |-> fn, path |-> path, is_allowed_to |-> allowed, queue |-> queue]
    /\ UNCHANGED <<procVars, WEBSOCKET_WORKERS, WINDOW_INFO_MIDDLEWARES, REGISTERED_FUNCTIONS,
                   submitted, cache>>

\* decorators.py: the function decorator (Connection.__init__, then
\* FunctionConnection.register, which replaces the entry of the path)
RegisterFunction(fn, path, allowed, queue) ==
    /\ Startup
    /\ \E r \in {Connection(fn, path, allowed, queue)} :
       /\ REGISTERED_FUNCTIONS' =
             IF r.exc = NoneV
             THEN [REGISTERED_FUNCTIONS EXCEPT ![path] = r.connection]
             ELSE REGISTERED_FUNCTIONS
       /\ last' = [op |-> "function", exc |-> r.exc, events |-> <<>>,
                   fn |-> fn, path |-> path, is_allowed_to |-> allowed, queue |-> queue]
    /\ UNCHANGED <<procVars, WEBSOCKET_WORKERS, WINDOW_INFO_MIDDLEWARES, REGISTERED_SIGNALS, submitted,
                   cache>>

\* the choices one call of _trigger_signal_async leaves open
Choices(signal_name, to, opts, request) ==
    LET conns == REGISTERED_SIGNALS[signal_name] IN
    UNION {
      {[picks |-> pk, order |-> o, sync_picks |-> sp, layer_encodes |-> le] :
          o \in SeqsOf(dispatch_queues(REGISTERED_SIGNALS, signal_name, to, opts, request, pk)),
          sp \in IF InList(SYNC, normalize_to(to).items)
                 THEN [QueueNames -> Picks(conns)]
                 ELSE {[q \in QueueNames |-> pk]},
          le \in IF WEBSOCKET_WORKERS = WORKER_CHANNEL THEN BOOLEAN ELSE {TRUE}} :
      pk \in Picks(conns)}

JobsOf(events) ==
    LET idx == {i \in 1..Len(events) : events[i].type = "submit"}
        RECURSIVE take(_)
        take(i) == IF i > Len(events) THEN <<>>
                   ELSE IF i \in idx THEN <<events[i].job>> \o take(i + 1)
                   ELSE take(i + 1)
    IN take(1)

\* tasks.py: trigger / trigger_signal called by server code
Trigger(request, signal_name, to, kwargs, opts) ==
    /\ Startup
    /\ \E nd \in Choices(signal_name, to, opts, request) :
        \E r \in {trigger_signal_async(cfg, REGISTERED_SIGNALS, request, signal_name, to,
                                        kwargs, opts, FALSE, nd)} :
           /\ submitted' = JobsOf(r.events)
           /\ last' = [op |-> "trigger", exc |-> r.exc, events |-> r.events,
                       request |-> request, signal_name |-> signal_name, to |-> to,
                       kwargs |-> kwargs, opts |-> opts, from_client |-> FALSE,
                       kwargs_after |-> r.kwargs]
    /\ UNCHANGED <<procVars, WEBSOCKET_WORKERS, WINDOW_INFO_MIDDLEWARES, REGISTERED_FUNCTIONS,
                   REGISTERED_SIGNALS, cache>>

\* consumers.py: DFConsumer.receive for a message {"signal", "opts", ...}:
\* to=[SERVER], from_client=True, every exception logged and dropped.
\* msg delays are the integers of the message ("0" when the key is absent).
\* variant: the message is also sent to the window of the client
receive_to_window == <<SERVER, WINDOW>>

\* consumers.py line 155: to=[SERVER]
receive_to == <<SERVER>>

Receive(request, signal_name, kwargs, opts) ==
    /\ Startup
    /\ LET to == [shape |-> "list", items |-> receive_to]
           int_or_none == [k \in OptionNames |-> IF opts[k] = "0" THEN NoneV ELSE opts[k]]
       IN \E nd \in Choices(signal_name, to, int_or_none, request) :
           \E r \in {trigger_signal_async(cfg, REGISTERED_SIGNALS, request, signal_name, to,
                                           kwargs, int_or_none, TRUE, nd)} :
              /\ submitted' = JobsOf(r.events)
              /\ last' = [op |-> "receive", exc |-> NoneV, events |-> r.events,
                          request |-> request, signal_name |-> signal_name, to |-> to,
                          kwargs |-> kwargs, opts |-> opts, from_client |-> TRUE,
                          kwargs_after |-> r.kwargs, caught |-> r.exc]
    /\ UNCHANGED <<procVars, WEBSOCKET_WORKERS, WINDOW_INFO_MIDDLEWARES, REGISTERED_FUNCTIONS,
                   REGISTERED_SIGNALS, cache>>

RemoveAt(s, i) == SubSeq(s, 1, i - 1) \o SubSeq(s, i + 1, Len(s))

\* the backend runs one submitted job: process_task(*signal_args)
RunJob(i) ==
    /\ i \in 1..Len(submitted)
    /\ LET job == submitted[i] IN
       \E picks \in Picks(REGISTERED_SIGNALS[job.signal_name]) :
          \E r \in {process_task(REGISTERED_SIGNALS, WINDOW_INFO_MIDDLEWARES, job, picks)} :
             last' = [op |-> "process_task", exc |-> r.exc, events |-> r.events,
                      job |-> job, picks |-> picks, kwargs_after |-> r.kwargs]
    /\ submitted' = RemoveAt(submitted, i)
    /\ UNCHANGED <<procVars, WEBSOCKET_WORKERS, WINDOW_INFO_MIDDLEWARES, REGISTERED_FUNCTIONS,
                   REGISTERED_SIGNALS, cache>>

\* Connection.check called on the connection built for fn
CheckCall(fn, kwargs) ==
    /\ Startup
    /\ LET c == Connection(fn, "s1", "everyone", "celery") IN
       /\ c.exc = NoneV
       /\ LET r == check(c.connection, kwargs) IN
          last' = [op |-> "check", exc |-> r.exc, events |-> <<>>, fn |-> fn,
                   connection |-> c.connection, kwargs |-> kwargs,
                   status |-> r.status, kwargs_after |-> r.kwargs]
    /\ UNCHANGED <<procVars, WEBSOCKET_WORKERS, WINDOW_INFO_MIDDLEWARES, REGISTERED_FUNCTIONS,
                   REGISTERED_SIGNALS, submitted,
                   cache>>

\* ------------------------------------------------------------------------
\* Inputs
Param(name, has_default, annotation) ==
    [name |-> name, kind |-> "plain", has_default |-> has_default, annotation |-> annotation]
P_window_info == Param("window_info", FALSE, "empty")
P_kwargs == [name |-> "kwargs", kind |-> "VAR_KEYWORD", has_default |-> FALSE,
             annotation |-> "empty"]

\* def fn(window_info, a=None)
Sig_opt == <<P_window_info, Param("a", TRUE, "empty")>>
\* def fn(window_info, a: int)
Sig_int == <<P_window_info, Param("a", FALSE, "int")>>
\* def fn(window_info, a: SerializedForm(F) = None)
Sig_form == <<P_window_info, Param("a", TRUE, "SerializedForm")>>

Bodies == {"return", "raise"}

Requests ==
    {[kind |-> "HttpRequest", window_key |-> "k1", user_pk |-> u,
      is_staff |-> FALSE, is_superuser |-> FALSE] : u \in {NoneV, "7"}}

Dests == {SERVER, SYNC, WINDOW, USER, BROADCAST, SESSION, ENTITY}
ListDests == {SERVER, SYNC, WINDOW, ENTITY}
ToLists == UNION {[1..n -> ListDests] : n \in 0..MaxTo}
ToValues ==
    {[shape |-> "none", items |-> <<>>]}
    \cup {[shape |-> "bare", items |-> <<d>>] : d \in Dests}
    \cup {[shape |-> "list", items |-> l] : l \in ToLists}

NoOpts == [k \in OptionNames |-> NoneV]
OptsSet == {NoOpts, [NoOpts EXCEPT !["countdown"] = "0"], [NoOpts EXCEPT !["eta"] = "t"]}

Kw(a) == [k \in {"a"} |-> a]
Empty == [k \in {} |-> NoneV]

\* ------------------------------------------------------------------------
\* Spec: the fan-out of a trigger, for every backend
RegisterQueue ==
    \E queue \in {"celery", "fast", NoneV} :
        Register([params |-> Sig_opt, body |-> "return"], "s1", "server_side", queue)

TriggerAny ==
    \E request \in Requests, signal_name \in SignalNames, to \in ToValues,
       kwargs \in {Kw(V_STR1), Kw(V_OBJ)}, opts \in OptsSet :
        Trigger(request, signal_name, to, kwargs, opts)

ReceiveAny ==
    \E request \in Requests, signal_name \in SignalNames,
       kwargs \in {Kw(V_STR1)}, opts \in {NoOpts, [NoOpts EXCEPT !["countdown"] = "5"]} :
        Receive(request, signal_name, kwargs, [k \in OptionNames |-> IF opts[k] = NoneV THEN "0" ELSE opts[k]])

RunAny == \E i \in 1..Len(submitted) : RunJob(i)

Next == RegisterQueue \/ TriggerAny \/ ReceiveAny \/ RunAny

Spec == Init /\ [][Next]_vars

\* ------------------------------------------------------------------------
\* SpecExec: the execution of jobs, for handlers that differ in signature,
\* authorization and body
InitExec ==
    /\ WEBSOCKET_WORKERS = WORKER_CELERY
    /\ WINDOW_INFO_MIDDLEWARES \in MiddlewareSets
    /\ REGISTERED_SIGNALS = [p \in ValidPaths |-> <<>>]
    /\ REGISTERED_FUNCTIONS = [p \in ValidPaths |-> NoConnection]
    /\ submitted = <<>>
    /\ cache = EmptyCache
    /\ last = NoCall
    /\ InitProc

RegisterHandler ==
    \E params \in {Sig_opt, Sig_int, Sig_form}, body \in Bodies,
       allowed \in {"server_side", "everyone", "is_authenticated"} :
        Register([params |-> params, body |-> body], "s1", allowed, "celery")

ExecKwargs == {Empty, Kw(V_STR1), Kw(V_STRX), Kw(V_LIST)}

TriggerServer ==
    \E request \in Requests, to \in {<<SERVER>>, <<SYNC>>}, kwargs \in ExecKwargs :
        Trigger(request, "s1", [shape |-> "list", items |-> to], kwargs, NoOpts)

ReceiveMessage ==
    \E request \in Requests, kwargs \in ExecKwargs :
        Receive(request, "s1", kwargs, [k \in OptionNames |-> "0"])

NextExec == RegisterHandler \/ TriggerServer \/ ReceiveMessage \/ RunAny

SpecExec == InitExec /\ [][NextExec]_vars

\* ------------------------------------------------------------------------
\* SpecCheck: Connection.check on every signature and kwargs of the bounds
CheckNames == {"a", "b"}
CheckValues == {V_STR1, V_STRX, V_LIST}
CheckKwargs == UNION {[d -> CheckValues] : d \in SUBSET CheckNames}
CheckParams ==
    {Param("a", d, ann) : d \in BOOLEAN, ann \in {"empty", "int", "SerializedForm"}}
CheckSigs ==
    {<<P_window_info, p>> : p \in CheckParams}
    \cup {<<P_window_info, p, P_kwargs>> : p \in CheckParams}
    \cup {<<P_window_info, p, Param("b", d, ann)>> :
            p \in CheckParams, d \in BOOLEAN, ann \in {"empty", "int"}}
    \cup {<<Param("b", d, "empty"), P_window_info, p>> : p \in CheckParams, d \in BOOLEAN}
    \cup {<<p, P_window_info>> : p \in CheckParams}

NextCheck ==
    \E params \in CheckSigs, kwargs \in CheckKwargs :
        CheckCall([params |-> params, body |-> "return"], kwargs)

SpecCheck == InitExec /\ [][NextCheck]_vars

\* ========================================================================
\* Properties

EventsOf(type) == {i \in 1..Len(last.events) : last.events[i].type = type}
Submits == EventsOf("submit")
Publishes == EventsOf("publish")
Invokes == EventsOf("invoke")

ToList(items) == [shape |-> "list", items |-> items]
TopicOf(obj) == serialize_topic(WindowInfo_from_request(last.request), obj)

\* the scheduling options count as supplied when one of them is truthy
\* (tasks.py lines 250-255 drop None and 0)
DelayAsked == \E k \in OptionNames : last.opts[k] \notin {NoneV, "0"}

OneHandlerFanOut(opts) ==
    /\ last.op = "trigger"
    /\ Len(REGISTERED_SIGNALS[last.signal_name]) = 1
    /\ last.to = ToList(<<SERVER, ENTITY>>)
    /\ last.opts = opts
    /\ KwargsSerializable(last.kwargs)

\* C1: for a signal with exactly one handler, on queue Q, trigger(ctx, name,
\* to=[SERVER, E]) without countdown/expires/eta (and with JSON-encodable
\* kwargs) submits exactly one job, on Q, with client_topics = [], and
\* performs exactly one immediate publish, to the topic resolved for E.
C1_FanOutWithoutDelay ==
    OneHandlerFanOut(NoOpts) =>
        /\ last.exc = NoneV
        /\ Cardinality(Submits) = 1
        /\ \A i \in Submits :
            /\ last.events[i].job.queue = REGISTERED_SIGNALS[last.signal_name][1].queue
            /\ last.events[i].job.serialized_client_topics = <<>>
            /\ last.events[i].options = {}
        /\ Cardinality(Publishes) = 1
        /\ \A i \in Publishes :
            last.events[i].group = valid_topic_name(TopicOf(ENTITY))
        /\ Len(submitted) = 1

C1_Witness ==
    /\ OneHandlerFanOut(NoOpts)
    /\ REGISTERED_SIGNALS[last.signal_name][1].queue = "fast"
    /\ Cardinality(Submits) = 1 /\ Cardinality(Publishes) = 1

\* C2 as stated: on the Celery backend, for a signal with one handler on any
\* queue Q, trigger_signal(ctx, name, to=[SERVER, E], eta=t) publishes
\* nothing immediately and submits exactly one job in total, whose
\* client_topics contains the topic resolved for E.
C2_Original ==
    (OneHandlerFanOut([NoOpts EXCEPT !["eta"] = "t"]) /\ WEBSOCKET_WORKERS = WORKER_CELERY) =>
        /\ Publishes = {}
        /\ Cardinality(Submits) = 1
        /\ \A i \in Submits :
            InList(TopicOf(ENTITY), last.events[i].job.serialized_client_topics)

\* C2 amended: on the Celery backend, for a signal with one handler on a
\* queue Q, trigger_signal(ctx, name, to=[SERVER, E], eta=t) with
\* JSON-encodable kwargs publishes nothing immediately and submits one job
\* per queue of {Q, default queue} (one job if Q is the default queue, two
\* otherwise); exactly one of them, the job on the default queue, has
\* client_topics = [topic of E], and the others have client_topics = [].
C2_DeferredFanOut ==
    (OneHandlerFanOut([NoOpts EXCEPT !["eta"] = "t"]) /\ WEBSOCKET_WORKERS = WORKER_CELERY) =>
        LET Q == REGISTERED_SIGNALS[last.signal_name][1].queue IN
        /\ last.exc = NoneV
        /\ Publishes = {}
        /\ {last.events[i].job.queue : i \in Submits} = {Q, WEBSOCKET_DEFAULT_QUEUE}
        /\ Cardinality(Submits) = Cardinality({Q, WEBSOCKET_DEFAULT_QUEUE})
        /\ \A i \in Submits :
            /\ last.events[i].options = {"eta"}
            /\ last.events[i].job.serialized_client_topics =
                  IF last.events[i].job.queue = WEBSOCKET_DEFAULT_QUEUE
                  THEN <<TopicOf(ENTITY)>> ELSE <<>>

C2_Witness ==
    /\ OneHandlerFanOut([NoOpts EXCEPT !["eta"] = "t"])
    /\ WEBSOCKET_WORKERS = WORKER_CELERY
    /\ REGISTERED_SIGNALS[last.signal_name][1].queue = "fast"
    /\ Cardinality(Submits) = 2

\* C3: when a countdown, expires or eta is supplied to trigger_signal and the
\* backend is not Celery, the call raises, and no job has been submitted, no
\* handler has run in-process and no message has been published.
C3_UnsupportedSchedulingFailsFast ==
    (last.op = "trigger" /\ DelayAsked /\ WEBSOCKET_WORKERS # WORKER_CELERY) =>
        /\ last.exc # NoneV
        /\ last.events = <<>>
        /\ submitted = <<>>

C3_Witness ==
    /\ last.op = "trigger" /\ DelayAsked /\ WEBSOCKET_WORKERS = WORKER_THREAD
    /\ last.to = ToList(<<SERVER, SYNC>>)
    /\ REGISTERED_SIGNALS[last.signal_name] # <<>>
    /\ last.exc = "ValueError"

\* C7: a trigger with to=[SERVER] for a signal name that is not registered
\* completes normally, submits no job, invokes no handler and raises
\* nothing, from server code and from a client message alike (calls that
\* ask for a delay on a backend without scheduling are those of C3).
UnknownSignalToServer ==
    /\ last.op \in {"trigger", "receive"}
    /\ last.to = ToList(<<SERVER>>)
    /\ REGISTERED_SIGNALS[last.signal_name] = <<>>
    /\ ~(DelayAsked /\ WEBSOCKET_WORKERS # WORKER_CELERY)

C7_UnknownSignalTolerated ==
    UnknownSignalToServer =>
        /\ last.exc = NoneV
        /\ (last.op = "receive" => last.caught = NoneV)
        /\ last.events = <<>>
        /\ submitted = <<>>

C7_Witness ==
    /\ UnknownSignalToServer
    /\ last.op = "receive"
    /\ REGISTERED_SIGNALS["s1"] # <<>>
    /\ last.signal_name = "s2"

\* C10 as stated: a trigger whose kwargs are not JSON-serializable submits no
\* job, and raises when it has a job to submit, whatever the backend.
C10_SerializationCheckedAtTrigger ==
    (last.op = "trigger" /\ ~KwargsSerializable(last.kwargs)) =>
        /\ Submits = {}
        /\ (InList(SERVER, normalize_to(last.to).items)
            /\ REGISTERED_SIGNALS[last.signal_name] # <<>>
            /\ normalize_to(last.to).exc = NoneV) => last.exc # NoneV

\* ------------------------------------------------------------------------
\* Job execution (SpecExec)

Handlers == REGISTERED_SIGNALS[last.job.signal_name]
InvokedIndexes == {last.events[i].index : i \in Invokes}

\* the is_allowed_to predicate of the handler returns false for the job
Denies(connection, job) ==
    \/ connection.is_allowed_to = "server_side"
    \/ connection.is_allowed_to = "is_authenticated" /\ job.window_info_dict.user_pk = NoneV

\* the handler is on the job's queue, may be called by the job's origin, and
\* accepts the job's arguments
Eligible(connection, job) ==
    /\ connection.queue = job.queue
    /\ ~(job.from_client /\ Denies(connection, job))
    /\ check(connection, job.kwargs).status = "ok"

\* C4: when process_task executes a job with from_client=True, a handler
\* whose is_allowed_to predicate returns false is not invoked, and no
\* exception leaves process_task.
C4_UnauthorizedClientCall ==
    (last.op = "process_task" /\ last.job.from_client) =>
        /\ \A j \in InvokedIndexes : ~Denies(Handlers[j], last.job)
        /\ last.exc = NoneV

C4_Witness ==
    /\ last.op = "process_task" /\ last.job.from_client
    /\ Len(Handlers) = 2
    /\ Denies(Handlers[1], last.job) /\ Eligible(Handlers[1], [last.job EXCEPT !.from_client = FALSE])
    /\ InvokedIndexes = {2}

\* C5 as stated (with middlewares that define before_process): when a job is
\* executed and the body of one handler raises, every other handler of the
\* signal that is on the job's queue, authorized and valid is still invoked
\* by the same execution.
C5_HandlerFailureIsolation ==
    (/\ last.op = "process_task"
     /\ WINDOW_INFO_MIDDLEWARES = "hooked"
     /\ \E j \in InvokedIndexes : Handlers[j].body = "raise") =>
        \A j \in 1..Len(Handlers) : Eligible(Handlers[j], last.job) => j \in InvokedIndexes

\* C6: an exception raised by a handler body never leaves process_task:
\* neither the backend that runs the job nor, on the SYNC path, the caller
\* of trigger sees it.
RaisingHandlerInvoked ==
    \E i \in Invokes :
        REGISTERED_SIGNALS[last.events[i].signal][last.events[i].index].body = "raise"

C6_HandlerExceptionsContained ==
    (last.op \in {"process_task", "trigger"} /\ RaisingHandlerInvoked) => last.exc = NoneV

C6_Witness ==
    /\ last.op = "trigger" /\ last.to = ToList(<<SYNC>>)
    /\ RaisingHandlerInvoked
    /\ last.exc = NoneV

\* C9 as stated (with middlewares that define before_process and handler
\* bodies that return): when a job is executed and its arguments are
\* rejected for one handler (coercion failure, missing or unexpected
\* argument), that handler is not invoked and every sibling handler whose
\* validation succeeds is still invoked.
Rejected(connection, job) ==
    /\ connection.queue = job.queue
    /\ ~(job.from_client /\ Denies(connection, job))
    /\ check(connection, job.kwargs).status # "ok"

C9_RejectionSkipsOneHandler ==
    (/\ last.op = "process_task"
     /\ last.job.to_server
     /\ WINDOW_INFO_MIDDLEWARES = "hooked"
     /\ \A j \in 1..Len(Handlers) : Handlers[j].body = "return"
     /\ \E j \in 1..Len(Handlers) : Rejected(Handlers[j], last.job)) =>
        \A j \in 1..Len(Handlers) :
            /\ Rejected(Handlers[j], last.job) => j \notin InvokedIndexes
            /\ Eligible(Handlers[j], last.job) => j \in InvokedIndexes

\* ------------------------------------------------------------------------
\* Connection.check (SpecCheck)

CoercerRaises(connection, kwargs) ==
    \E i \in 1..Len(connection.argument_types) :
        LET k == connection.argument_types[i][1] IN
        k \in DOMAIN kwargs /\ Coerce(connection.argument_types[i][2], kwargs[k]).exc # NoneV

CoercedValue(connection, kwargs, k) ==
    IF \E i \in 1..Len(connection.argument_types) : connection.argument_types[i][1] = k
    THEN LET i == CHOOSE i \in 1..Len(connection.argument_types) :
                      connection.argument_types[i][1] = k
         IN Coerce(connection.argument_types[i][2], kwargs[k]).val
    ELSE kwargs[k]

\* C8 as stated: check returns None if a required name is absent, or if the
\* handler takes no **kwargs and an unexpected name is present, or if a
\* coercer raises; otherwise it returns a mapping that contains every
\* provided name, with the coercer applied to each name that has one.
C8_ArgumentValidationResult ==
    last.op = "check" =>
        LET c == last.connection
            kw == last.kwargs
            reject == \/ \E k \in c.required_arguments_names : k \notin DOMAIN kw
                      \/ ~c.accept_kwargs /\ \E k \in DOMAIN kw : k \notin c.accepted_argument_names
                      \/ CoercerRaises(c, kw)
        IN IF reject THEN last.status = "None"
           ELSE /\ last.status = "ok"
                /\ DOMAIN last.kwargs_after = DOMAIN kw
                /\ \A k \in DOMAIN kw : last.kwargs_after[k] = CoercedValue(c, kw, k)

\* ========================================================================
\* Topic store and websocket gateway (SpecTopics)

\* tasks.py lines 111-116: the topics of set_websocket_topics.  The request
\* has become a WindowInfo; its user property is the user of the request,
\* authenticated when user_pk is set.
\* variant: the window topic is not added
topic_strings_without_window(window_info, topics) ==
    {serialize_topic(window_info, topics[i]) : i \in {j \in 1..Len(topics) : topics[j] # SERVER}}
    \cup (IF window_info.user_pk # NoneV THEN {serialize_topic(window_info, USER)} ELSE {})
    \cup {serialize_topic(window_info, BROADCAST)}

topic_strings(window_info, topics) ==
    {serialize_topic(window_info, topics[i]) : i \in {j \in 1..Len(topics) : topics[j] # SERVER}}
    \cup (IF window_info.user_pk # NoneV THEN {serialize_topic(window_info, USER)} ELSE {})
    \cup {serialize_topic(window_info, WINDOW), serialize_topic(window_info, BROADCAST)}

\* tasks.py: set_websocket_topics, on cache c: [exc, cache].  The value
\* stored is the JSON array of the topic strings, in the order the set
\* gives them: it is kept as the set of its elements.
set_websocket_topics(c, request, topics) ==
    IF ~request.has_window_key THEN [exc |-> "ImproperlyConfigured", cache |-> c]
    ELSE [exc |-> NoneV,
          cache |-> [c EXCEPT ![cache_key(WindowInfo_from_request(request).window_key)] =
                        [present |-> TRUE,
                         topics |-> topic_strings(WindowInfo_from_request(request), topics)]]]

\* the names the modules ws_settings and tasks define (those read below)
ws_settings_names == {"WEBSOCKET_DEFAULT_QUEUE", "WEBSOCKET_CACHE_EXPIRE",
                      "WEBSOCKET_CACHE_PREFIX", "WEBSOCKET_CACHE_BACKEND"}
tasks_names == {"set_websocket_topics", "trigger", "trigger_signal", "process_task"}

\* consumers.py: get_websocket_topics: [exc, topics].  It reads
\* ws_settings.WEBSOCKET_REDIS_PREFIX, then tasks.get_websocket_redis_connection.
get_websocket_topics(c, window_key) ==
    IF "WEBSOCKET_REDIS_PREFIX" \notin ws_settings_names
       \/ "get_websocket_redis_connection" \notin tasks_names
    THEN [exc |-> "AttributeError", topics |-> {}]
    ELSE [exc |-> NoneV,
          topics |-> {valid_topic_name(x) : x \in c[cache_key(window_key)].topics}]

\* bounds of the topic store
MaxSets == 2
MaxTopics == 2

SetCalls == IF last.op = "set_websocket_topics" THEN last.calls ELSE 0

\* a view calls set_websocket_topics
SetTopics(request, topics) ==
    /\ last.op \in {"none", "set_websocket_topics"}
    /\ SetCalls < MaxSets
    /\ \E r \in {set_websocket_topics(cache, request, topics)} :
        /\ cache' = r.cache
        /\ last' = [op |-> "set_websocket_topics", exc |-> r.exc, events |-> <<>>,
                    request |-> request, topics |-> topics, calls |-> SetCalls + 1,
                    before |-> cache[cache_key(request.window_key)]]
    /\ UNCHANGED <<procVars, WEBSOCKET_WORKERS, WINDOW_INFO_MIDDLEWARES, REGISTERED_FUNCTIONS,
                   REGISTERED_SIGNALS, submitted>>

\* get_websocket_topics called for a request with this window key
GetTopics(window_key) ==
    /\ last.op \in {"none", "set_websocket_topics"}
    /\ \E r \in {get_websocket_topics(cache, window_key)} :
        last' = [op |-> "get_websocket_topics", exc |-> r.exc, events |-> <<>>,
                 window_key |-> window_key, topics |-> r.topics]
    /\ UNCHANGED <<procVars, WEBSOCKET_WORKERS, WINDOW_INFO_MIDDLEWARES, REGISTERED_FUNCTIONS,
                   REGISTERED_SIGNALS, submitted,
                   cache>>

\* what a connecting client supplies: the DFWSKEY header, the dfwskey
\* query parameter and the dfwskey cookie, each NoneV when absent
QueryScope(window_key) == [header |-> NoneV, query |-> window_key, cookie |-> NoneV]

\* middleware.py lines 59-70: WebsocketMiddleware.process_request, run by
\* handler.get_response (consumers.py line 77) on the request that
\* build_http_request marks as XMLHttpRequest (line 128); "random32" is the
\* key get_random_string mints
process_request(scope) ==
    IF scope.header # NoneV THEN scope.header
    ELSE IF scope.cookie # NoneV THEN scope.cookie
    ELSE "random32"

\* consumers.py lines 78-80: request.window_key = request.GET.get("dfwskey", "")
connect_window_key(scope, from_middleware) ==
    IF scope.query # NoneV THEN scope.query ELSE ""

\* consumers.py: DFConsumer.connect for a client that supplies scope: the
\* exception of lines 75-92 is logged and raised again, and the connection
\* is accepted (line 92) only without one.
Connect(scope) ==
    /\ last.op \in {"none", "set_websocket_topics"}
    /\ consumer.state = "new"
    /\ \E window_key \in {connect_window_key(scope, process_request(scope))} :
       \E r \in {get_websocket_topics(cache, window_key)} :
        /\ last' = [op |-> "connect", exc |-> r.exc, events |-> <<>>,
                    scope |-> scope,
                    window_key |-> window_key,
                    topics |-> r.topics,
                    groups |-> IF r.exc = NoneV THEN r.topics ELSE {},
                    accepted |-> r.exc = NoneV]
        /\ consumer' = IF r.exc = NoneV
                       THEN [consumer EXCEPT !.state = "open", !.window_key = window_key,
                                             !.topics = r.topics]
                       ELSE [consumer EXCEPT !.state = "failed"]
        /\ layer_groups' = IF r.exc = NoneV THEN r.topics ELSE layer_groups
    /\ UNCHANGED <<pc, lru_cache, sys_modules, PROCESS_POOLS, log,
                   WEBSOCKET_WORKERS, WINDOW_INFO_MIDDLEWARES, REGISTERED_FUNCTIONS,
                   REGISTERED_SIGNALS, submitted, cache>>

\* requests seen by a view: with the window key WebsocketMiddleware sets, or
\* without the middleware
TopicRequests ==
    {[kind |-> "HttpRequest", window_key |-> k, user_pk |-> u, is_staff |-> FALSE,
      is_superuser |-> FALSE, has_window_key |-> TRUE] :
        k \in WindowKeys, u \in {NoneV, "7"}}
    \cup {[kind |-> "HttpRequest", window_key |-> NoneV, user_pk |-> NoneV,
           is_staff |-> FALSE, is_superuser |-> FALSE, has_window_key |-> FALSE]}
TopicDests == {SERVER, USER, ENTITY}
TopicLists == UNION {[1..n -> TopicDests] : n \in 0..MaxTopics}

InitTopics ==
    /\ WEBSOCKET_WORKERS = WORKER_CELERY
    /\ WINDOW_INFO_MIDDLEWARES = "default"
    /\ REGISTERED_SIGNALS = [p \in ValidPaths |-> <<>>]
    /\ REGISTERED_FUNCTIONS = [p \in ValidPaths |-> NoConnection]
    /\ submitted = <<>>
    /\ cache = EmptyCache
    /\ last = NoCall
    /\ InitProc

SetTopicsAny == \E request \in TopicRequests, topics \in TopicLists : SetTopics(request, topics)
GetTopicsAny == \E k \in WindowKeys : GetTopics(k)
ConnectAny == \E k \in WindowKeys : Connect(QueryScope(k))

NextTopics == SetTopicsAny \/ GetTopicsAny \/ ConnectAny

SpecTopics == InitTopics /\ [][NextTopics]_vars

\* ------------------------------------------------------------------------
\* Properties of the topic store

StoredFor(window_key) == cache[cache_key(window_key)]

\* C11: after set_websocket_topics(request, d1..dn) returns, the topic set
\* stored for the request's window key is exactly the topics of every di
\* other than SERVER, plus the WINDOW topic, plus the BROADCAST topic, plus
\* the USER topic if the user of the request is authenticated (and only
\* then, unless USER is one of the di); it always contains the WINDOW and
\* BROADCAST topics.
C11_SubscriptionRecordContents ==
    (last.op = "set_websocket_topics" /\ last.exc = NoneV) =>
        LET key == last.request.window_key
            user == last.request.user_pk
            given == {last.topics[i] : i \in 1..Len(last.topics)} \ {SERVER}
            expected ==
                {IF d = USER THEN "-auth.user." \o Str(user) ELSE "-app.model.1" : d \in given}
                \cup {"-window." \o key, "-broadcast"}
                \cup (IF user # NoneV THEN {"-auth.user." \o user} ELSE {})
        IN /\ StoredFor(key).present
           /\ StoredFor(key).topics = expected
           /\ {"-window." \o key, "-broadcast"} \subseteq StoredFor(key).topics

C11_Witness ==
    /\ last.op = "set_websocket_topics" /\ last.exc = NoneV
    /\ last.calls = 2
    /\ last.before.present
    /\ last.request.user_pk = NoneV
    /\ last.topics = <<SERVER, ENTITY>>
    /\ "-auth.user.7" \in last.before.topics
    /\ StoredFor(last.request.window_key).topics = {"-app.model.1", "-window.k1", "-broadcast"}

\* C12: after any sequence of set_websocket_topics calls for one window key,
\* get_websocket_topics for that key returns exactly the hashed
\* (valid_topic_name) topics of the latest call, never the union with earlier
\* calls.
C12_SetGetRoundTrip ==
    (last.op = "get_websocket_topics" /\ StoredFor(last.window_key).present) =>
        /\ last.exc = NoneV
        /\ last.topics = {valid_topic_name(x) : x \in StoredFor(last.window_key).topics}

\* C13: a client that connects presenting the window key of an earlier
\* set_websocket_topics call is accepted and joins exactly the stored topics
\* (the condition of every later delivery to that connection).
C13_ConnectJoinsStoredTopics ==
    (last.op = "connect" /\ StoredFor(last.window_key).present) =>
        /\ last.exc = NoneV
        /\ last.accepted
        /\ last.groups = {valid_topic_name(x) : x \in StoredFor(last.window_key).topics}

\* C14: every inbound client message that carries a "signal" key is
\* dispatched with to=[SERVER] and from_client=True: it never publishes to a
\* client topic and never executes a handler in-process (SYNC); the jobs it
\* submits are from the client, for the server, with no client topic.
C14_ClientMessagesConfinedToServer ==
    last.op = "receive" =>
        /\ last.to = ToList(<<SERVER>>)
        /\ last.from_client
        /\ Publishes = {}
        /\ Invokes = {}
        /\ \A i \in Submits :
              /\ last.events[i].job.from_client
              /\ last.events[i].job.to_server
              /\ last.events[i].job.serialized_client_topics = <<>>

C14_Witness ==
    /\ last.op = "receive"
    /\ last.caught = NoneV
    /\ Submits # {}
    /\ Len(REGISTERED_SIGNALS[last.signal_name]) = 2

\* C15: a handler registered with the default authorization (server_side)
\* is never invoked by a job that originates from a client message
\* (from_client=True), while a job with from_client=False invokes it (when
\* it is on the job's queue and accepts the job's arguments) without
\* consulting the authorization predicate.
C15_ServerSideHandlerOrigin ==
    (/\ last.op = "process_task"
     /\ Len(Handlers) = 1
     /\ Handlers[1].is_allowed_to = "server_side") =>
        /\ last.job.from_client => InvokedIndexes = {}
        /\ (/\ ~last.job.from_client
            /\ last.job.to_server
            /\ Handlers[1].queue = last.job.queue
            /\ check(Handlers[1], last.job.kwargs).status = "ok") => InvokedIndexes = {1}

\* ========================================================================
\* Topic resolution and authorization predicates on a context (SpecResolve)

\* the users of the database that hold the permission asked for, without
\* being superusers
PermittedUsers == {"7"}
Bool(b) == IF b THEN "True" ELSE "False"

\* ws_middleware.py, install_methods: WindowInfo.has_perm(perm), through the
\* perms property (empty without user_pk, every permission for a superuser)
has_perm_method(window_info) ==
    /\ window_info.user_pk # NoneV
    /\ (window_info.is_superuser \/ window_info.user_pk \in PermittedUsers)

\* decorators.py lines 156-218: "window_info and window_info.<attribute>".
\* The result is the value returned, or the exception raised.  The
\* attributes is_authenticated and is_anonymous are set together, by
\* DjangoAuthMiddleware.from_dict only.
PredicateNames == {"is_authenticated", "is_anonymous", "is_staff", "is_superuser", "has_perm"}

predicate_result(name, window_info) ==
    IF IsNoWindowInfo(window_info) THEN "None"
    ELSE IF name = "is_authenticated"
    THEN IF window_info.is_authenticated = "<unset>" THEN "AttributeError"
         ELSE window_info.is_authenticated
    ELSE IF name = "is_anonymous"
    THEN IF window_info.is_authenticated = "<unset>" THEN "AttributeError"
         ELSE Bool(window_info.is_authenticated = "False")
    ELSE IF name = "is_staff" THEN Bool(window_info.is_staff)
    ELSE IF name = "is_superuser" THEN Bool(window_info.is_superuser)
    ELSE Bool(has_perm_method(window_info))

\* a live connection: no request at all, or a request with or without the
\* window key of WebsocketMiddleware, anonymous or authenticated
NoRequest == [kind |-> "None"]
LiveRequests ==
    {[kind |-> "HttpRequest", window_key |-> k, user_pk |-> NoneV, is_staff |-> FALSE,
      is_superuser |-> FALSE] : k \in WindowKeys \cup {NoneV}}
    \cup {[kind |-> "HttpRequest", window_key |-> k, user_pk |-> u, is_staff |-> st,
           is_superuser |-> su] :
            k \in WindowKeys \cup {NoneV}, u \in {"7", "8"}, st \in BOOLEAN, su \in BOOLEAN}
    \cup {NoRequest}

\* WindowInfo.from_dict(window_info.to_dict())
restored(window_info) == WindowInfo_from_dict(WindowInfo_to_dict(window_info))

Contexts ==
    {NoWindowInfo}
    \cup {WindowInfo_from_request(r) : r \in LiveRequests}
    \cup {restored(WindowInfo_from_request(r)) : r \in LiveRequests}

ResolveDests == {WINDOW, USER, BROADCAST, ENTITY}

\* what is asked of a context: a topic or an authorization
ask(what, window_info) ==
    IF what \in ResolveDests THEN serialize_topic(window_info, what)
    ELSE predicate_result(what, window_info)

\* serialize_topic(window_info, obj)
Resolve(window_info, obj) ==
    /\ last.op = "none"
    /\ last' = [op |-> "serialize_topic", exc |-> NoneV, events |-> <<>>,
                window_info |-> window_info, obj |-> obj,
                result |-> serialize_topic(window_info, obj)]
    /\ UNCHANGED <<procVars, WEBSOCKET_WORKERS, WINDOW_INFO_MIDDLEWARES, REGISTERED_FUNCTIONS,
                   REGISTERED_SIGNALS, submitted,
                   cache>>

\* the same question asked of the context of a request and of the context
\* restored from its dict
RoundTrip(request, what) ==
    /\ last.op = "none"
    /\ \E window_info \in {WindowInfo_from_request(request)} :
        last' = [op |-> "round_trip", exc |-> NoneV, events |-> <<>>,
                 request |-> request, what |-> what,
                 window_info |-> window_info,
                 direct |-> ask(what, window_info),
                 after |-> ask(what, restored(window_info))]
    /\ UNCHANGED <<procVars, WEBSOCKET_WORKERS, WINDOW_INFO_MIDDLEWARES, REGISTERED_FUNCTIONS,
                   REGISTERED_SIGNALS, submitted,
                   cache>>

ResolveAny == \E window_info \in Contexts, obj \in ResolveDests : Resolve(window_info, obj)
RoundTripAny ==
    \E request \in LiveRequests, what \in ResolveDests \cup PredicateNames :
        RoundTrip(request, what)

NextResolve == ResolveAny \/ RoundTripAny

SpecResolve == InitTopics /\ [][NextResolve]_vars

\* ------------------------------------------------------------------------
\* Properties of topic resolution

\* the context carries no window key
NoKey(window_info) == IsNoWindowInfo(window_info) \/ window_info.window_key = NoneV

\* C16: serialize_topic(ctx, WINDOW) is None if and only if the context
\* carries no window key; otherwise it is a function of the window key only.
C16_WindowTopicResolution ==
    (last.op = "serialize_topic" /\ last.obj = WINDOW) =>
        /\ last.result = NoneV <=> NoKey(last.window_info)
        /\ ~NoKey(last.window_info) => last.result = "-window." \o last.window_info.window_key

\* C17: serialize_topic(ctx, USER) is None when the context has no
\* authenticated user, so a trigger with to=[USER], to=USER or `to` omitted,
\* for an anonymous context, publishes to no topic.
C17_AnonymousUserTopic ==
    /\ (last.op = "serialize_topic" /\ last.obj = USER
        /\ (IsNoWindowInfo(last.window_info) \/ last.window_info.user_pk = NoneV)) =>
            last.result = NoneV
    /\ (last.op = "trigger" /\ last.request.user_pk = NoneV
        /\ (last.to.shape = "none" \/ last.to.items = <<USER>>)) =>
            Publishes = {}

\* C19: for the context ctx of any request, WindowInfo.from_dict(ctx.to_dict())
\* gives the same topic for every destination and the same result for every
\* authorization predicate (is_authenticated, is_anonymous, is_staff,
\* is_superuser, has_perm) as ctx.
C19_ContextRoundTrip ==
    last.op = "round_trip" => last.direct = last.after

\* ------------------------------------------------------------------------
\* Destination normalization (Spec)

\* the call recorded in last has an outcome (exception, jobs submitted,
\* handlers run, messages published, in order) that the same call with
\* destination to2 can have
SameEffects(to2) ==
    \E nd \in Choices(last.signal_name, to2, last.opts, last.request) :
        Outcome(trigger_signal_async(cfg, REGISTERED_SIGNALS, last.request, last.signal_name,
                                     to2, last.kwargs, last.opts, FALSE, nd))
            = [events |-> last.events, kwargs |-> last.kwargs_after, exc |-> last.exc]

\* C18: for every symbolic destination d of SERVER, WINDOW, USER, SESSION,
\* BROADCAST, SYNC, trigger(ctx, name, to=d) has the same effects as
\* trigger(ctx, name, to=[d]); a trigger with `to` omitted has the same
\* effects as to=[USER].
C18_DestinationNormalization ==
    last.op = "trigger" =>
        /\ (/\ last.to.shape = "bare"
            /\ last.to.items[1] \in {SERVER, WINDOW, USER, SESSION, BROADCAST, SYNC}) =>
                SameEffects(ToList(last.to.items))
        /\ last.to.shape = "none" => SameEffects(ToList(<<USER>>))

\* ------------------------------------------------------------------------
\* Signature classification (SpecCheck)

\* the parameters the function declares, other than window_info and **kwargs
Declared(params) ==
    {params[i] : i \in {j \in 1..Len(params) :
                          /\ params[j].name # required_function_arg
                          /\ params[j].kind = "plain"}}

\* the same parameters declared in another order
Reordered(params) ==
    {[i \in 1..Len(params) |-> params[f[i]]] : f \in Permutations(1..Len(params))}

Classification(sig) ==
    <<sig.exc, sig.required_arguments_names, sig.optional_arguments_names,
      sig.accepted_argument_names, sig.accept_kwargs>>

\* C20: for every successfully registered handler, each declared parameter
\* other than window_info and **kwargs is in exactly one of
\* required_arguments_names (no default) and optional_arguments_names (a
\* default); the two sets are disjoint, accepted_argument_names is their
\* union, and the classification is the same for every order of declaration.
C20_SignatureClassification ==
    last.op = "check" =>
        /\ \A p \in Declared(last.fn.params) :
              /\ p.name \in last.connection.required_arguments_names <=> ~p.has_default
              /\ p.name \in last.connection.optional_arguments_names <=> p.has_default
        /\ last.connection.required_arguments_names
             \cap last.connection.optional_arguments_names = {}
        /\ last.connection.accepted_argument_names
             = last.connection.required_arguments_names
               \cup last.connection.optional_arguments_names
        /\ last.connection.accepted_argument_names
             = {p.name : p \in Declared(last.fn.params)}
        /\ \A q \in Reordered(last.fn.params) :
              Classification(signature_check(q)) =
                  <<NoneV, last.connection.required_arguments_names,
                    last.connection.optional_arguments_names,
                    last.connection.accepted_argument_names,
                    last.connection.accept_kwargs>>

C20_Witness ==
    /\ last.op = "check"
    /\ Len(last.fn.params) = 3
    /\ last.fn.params[1].name = "b"
    /\ last.connection.required_arguments_names = {"b"}
    /\ last.connection.optional_arguments_names = {"a"}

\* ========================================================================
\* Registration (SpecRegister)

\* def fn(window_info, *args)
P_args == [name |-> "args", kind |-> "VAR_POSITIONAL", has_default |-> FALSE,
           annotation |-> "empty"]
Sig_args == <<P_window_info, P_args>>
\* def fn(a)
Sig_no_window_info == <<Param("a", FALSE, "empty")>>

\* a path the regular expression of Connection.__init__ rejects
BadPath == "not an identifier"

RegisterFns == {Sig_opt, Sig_args, Sig_no_window_info}
RegisterPaths == ValidPaths \cup {BadPath}

RegisterSignalAny ==
    \E params \in RegisterFns, path \in {"s1", BadPath}, queue \in {"fast", NoneV} :
        Register([params |-> params, body |-> "return"], path, "server_side", queue)

RegisterFunctionAny ==
    \E params \in RegisterFns, path \in RegisterPaths, queue \in {"fast", NoneV} :
        RegisterFunction([params |-> params, body |-> "return"], path, "server_side", queue)

NextRegister == RegisterSignalAny \/ RegisterFunctionAny

SpecRegister == InitTopics /\ [][NextRegister]_vars

\* ------------------------------------------------------------------------
\* Properties of registration

\* the path is not an identifier, the signature has no window_info, or it
\* declares *args
InvalidRegistration(fn, path) ==
    \/ path \notin ValidPaths
    \/ \A i \in 1..Len(fn.params) : fn.params[i].name # "window_info"
    \/ \E i \in 1..Len(fn.params) : fn.params[i].kind = "VAR_POSITIONAL"

\* C21: registering (as signal or as function) a handler whose path is not
\* an identifier, whose signature lacks window_info, or which declares *args,
\* raises an error to the registering code and leaves REGISTERED_SIGNALS and
\* REGISTERED_FUNCTIONS unchanged.
C21_RegistrationFailsClosed ==
    [][(last'.op \in {"signal", "function"} /\ InvalidRegistration(last'.fn, last'.path)) =>
          /\ last'.exc # NoneV
          /\ REGISTERED_SIGNALS' = REGISTERED_SIGNALS
          /\ REGISTERED_FUNCTIONS' = REGISTERED_FUNCTIONS]_vars

C21_Witness ==
    /\ last.op = "function"
    /\ last.exc = "ValueError"
    /\ last.fn.params = Sig_args
    /\ last.path = "s1"
    /\ REGISTERED_FUNCTIONS["s1"] # NoConnection
    /\ REGISTERED_SIGNALS["s1"] # <<>>

\* C22: a handler registered with the signal decorator without an explicit
\* queue is registered successfully, its queue is the configured default
\* queue (WEBSOCKET_DEFAULT_QUEUE), and get_queue returns that queue.
C22_DefaultQueue ==
    (/\ last.op = "signal"
     /\ last.queue = NoneV
     /\ ~InvalidRegistration(last.fn, last.path)) =>
        /\ last.exc = NoneV
        /\ REGISTERED_SIGNALS[last.path] # <<>>
        /\ REGISTERED_SIGNALS[last.path][Len(REGISTERED_SIGNALS[last.path])].queue
             = WEBSOCKET_DEFAULT_QUEUE
        /\ \A pick \in RandomQueues :
              get_queue(REGISTERED_SIGNALS[last.path][Len(REGISTERED_SIGNALS[last.path])],
                        pick) = WEBSOCKET_DEFAULT_QUEUE

\* ------------------------------------------------------------------------
\* Delivery to client connections (Spec)

\* the groups a connection of the window of the calling request can be a
\* member of: the hashed topics set_websocket_topics stores for a request
GroupSets ==
    {{valid_topic_name(x) : x \in topic_strings(WindowInfo_from_request(last.request), topics)} :
        topics \in TopicLists}

\* the messages the channel layer hands to a connection that is a member of
\* these groups: one per group_send to one of them (DFConsumer.ws_message
\* forwards each)
Delivered(groups) == {i \in Publishes : last.events[i].group \in groups}

\* C23: for a single trigger call, each client connection receives the
\* outbound message of the signal at most once, whatever the destination
\* list (a destination named twice, or several destinations the connection
\* is subscribed to).
C23_AtMostOnceClientDelivery ==
    last.op = "trigger" =>
        \A groups \in GroupSets : Cardinality(Delivered(groups)) <= 1

\* ========================================================================
\* Background delivery (SpecLive): handlers on static queues, one trigger
\* from server code, and workers that run every submitted job

RegisterStatic ==
    \E queue \in {"celery", "fast"}, body \in Bodies :
        Register([params |-> Sig_opt, body |-> body], "s1", "server_side", queue)

TriggerToServer ==
    \E request \in Requests, to \in {<<SERVER>>, <<SERVER, WINDOW>>} :
        Trigger(request, "s1", [shape |-> "list", items |-> to], Kw(V_STR1), NoOpts)

NextLive == RegisterStatic \/ TriggerToServer \/ RunAny

\* a worker that listens to a queue eventually takes the jobs of the queue
SpecLive == Init /\ [][NextLive]_vars /\ WF_vars(RunAny)

\* a trigger from server code, with SERVER in `to`, has just returned, and
\* handler h of its signal accepts its arguments
TriggeredFor(h) ==
    /\ last.op = "trigger"
    /\ InList(SERVER, last.to.items)
    /\ h \in 1..Len(REGISTERED_SIGNALS[last.signal_name])
    /\ check(REGISTERED_SIGNALS[last.signal_name][h], last.kwargs).status = "ok"

\* a job has just invoked handler h with the arguments of the trigger
InvokedBy(h) ==
    /\ last.op = "process_task"
    /\ \E i \in Invokes : /\ last.events[i].index = h
                          /\ last.events[i].kwargs = Kw(V_STR1)

\* C24: when workers eventually execute every submitted job, a trigger from
\* server code with SERVER in `to`, for a signal with a handler H on a static
\* queue and arguments H accepts, is eventually followed by an invocation of
\* H with those arguments.
C24_AtLeastOnceBackgroundDelivery ==
    \A h \in 1..MaxHandlers : TriggeredFor(h) ~> InvokedBy(h)

\* ------------------------------------------------------------------------
\* Backend independence (Spec)

\* the call recorded in last has an outcome (exception, jobs submitted with
\* their queue and payload, handlers run in-process, messages published)
\* that the same call can have with worker backend w
SameEffectsWith(w) ==
    \E c \in Choices(last.signal_name, last.to, last.opts, last.request), le \in BOOLEAN :
        Outcome(trigger_signal_async([cfg EXCEPT !.worker_mode = w], REGISTERED_SIGNALS,
                                     last.request, last.signal_name, last.to, last.kwargs,
                                     last.opts, FALSE, [c EXCEPT !.layer_encodes = le]))
            = [events |-> last.events, kwargs |-> last.kwargs_after, exc |-> last.exc]

\* C25: for the same registry, context, signal, kwargs and destinations,
\* without scheduling options, the jobs submitted (queue and payload), the
\* handlers invoked and the messages published are the same whichever
\* worker backend is configured.
C25_BackendIndependence ==
    (last.op = "trigger" /\ ~DelayAsked) => \A w \in WorkerModes : SameEffectsWith(w)

\* ------------------------------------------------------------------------
\* Execution of a job (Spec, SpecExec)

\* C26: when process_task executes a job whose serialized_client_topics is
\* not empty, one message of the signal is published to each of these
\* topics, before any handler of the job is invoked.
C26_DeferredClientNotification ==
    (last.op = "process_task" /\ last.job.serialized_client_topics # <<>>) =>
        \A k \in 1..Len(last.job.serialized_client_topics) :
            \E i \in Publishes :
                /\ last.events[i].group = valid_topic_name(last.job.serialized_client_topics[k])
                /\ last.events[i].message.signal = last.job.signal_name
                /\ \A j \in Invokes : i < j

\* C27: for a job with to_server=True whose signal has a handler on the
\* job's queue, process_task with the default middlewares goes through the
\* deserialization of the context and the before_process hooks without
\* aborting, then invokes the handler (when authorized and valid).
C27_JobExecutionReachesHandlers ==
    (/\ last.op = "process_task"
     /\ WINDOW_INFO_MIDDLEWARES = "default"
     /\ last.job.to_server) =>
        /\ \A i \in EventsOf("logger.exception") : last.events[i].exc # "AttributeError"
        /\ \A j \in 1..Len(Handlers) : Eligible(Handlers[j], last.job) => j \in InvokedIndexes

\* ========================================================================
\* Dynamic queues (SpecQueues): handlers on a static queue or on a
\* RandomDynamicQueueName, triggers to the server, jobs run by the workers

RegisterDynamic ==
    \E queue \in {"celery", RANDOM} :
        Register([params |-> Sig_opt, body |-> "return"], "s1", "everyone", queue)

TriggerQueues ==
    \E request \in Requests, to \in {<<SERVER>>, <<SERVER, WINDOW>>},
       opts \in {NoOpts, [NoOpts EXCEPT !["eta"] = "t"]} :
        Trigger(request, "s1", [shape |-> "list", items |-> to], Kw(V_STR1), opts)

NextQueues == RegisterDynamic \/ TriggerQueues \/ RunAny

SpecQueues == InitExec /\ [][NextQueues]_vars

\* the queue of a handler when RandomDynamicQueueName answers pick
ResolvedQueue(connection, pick) ==
    IF connection.queue = RANDOM THEN pick ELSE connection.queue

\* C28: process_task invokes a handler only if the queue of the handler,
\* resolved when the job is executed, equals the queue of the job.
C28_QueueAffinityAtExecution ==
    last.op = "process_task" =>
        \A j \in InvokedIndexes : ResolvedQueue(Handlers[j], last.picks[j]) = last.job.queue

C28_Witness ==
    /\ last.op = "process_task"
    /\ Len(Handlers) = 2
    /\ Handlers[1].queue = RANDOM /\ Handlers[2].queue = RANDOM
    /\ last.picks[1] # last.job.queue
    /\ last.picks[2] = last.job.queue
    /\ InvokedIndexes = {2}

\* the destinations of the call name a client topic
ClientDestination ==
    \/ last.to.shape = "none"
    \/ \E i \in 1..Len(last.to.items) : last.to.items[i] \notin {SERVER, SYNC}

JobsWithTopics == {i \in Submits : last.events[i].job.serialized_client_topics # <<>>}

\* the jobs of a deferred trigger: exactly one carries the client topics,
\* the job of the default queue, and no two jobs are on the same queue
DeferredTopicsOnOneJob ==
    (/\ last.op = "trigger"
     /\ DelayAsked
     /\ ClientDestination
     /\ last.exc = NoneV) =>
        /\ Cardinality(JobsWithTopics) = 1
        /\ \A i \in JobsWithTopics : last.events[i].job.queue = WEBSOCKET_DEFAULT_QUEUE
        /\ \A i, j \in Submits :
              last.events[i].job.queue = last.events[j].job.queue => i = j

\* the execution of a job publishes once to each client topic the job
\* carries, and to nothing else
RepublishedOnce ==
    last.op = "process_task" =>
        /\ \A k \in 1..Len(last.job.serialized_client_topics) :
              Cardinality({i \in Publishes :
                  last.events[i].group
                      = valid_topic_name(last.job.serialized_client_topics[k])}) = 1
        /\ last.job.serialized_client_topics = <<>> => Publishes = {}

\* C29: for a trigger with scheduling options and at least one client topic,
\* whatever the queues its handlers resolve to, exactly one of the submitted
\* jobs carries a non-empty serialized_client_topics (the job of the default
\* queue) and every other job an empty list, so that each deferred topic is
\* republished by exactly one job.
C29_NoDuplicateDeferredPublication ==
    DeferredTopicsOnOneJob /\ RepublishedOnce

\* ------------------------------------------------------------------------
\* In-process execution (Spec)

\* C30: a trigger with to=[SYNC] and no scheduling options executes the job
\* in-process once per resolved queue: every handler of the signal that
\* accepts the arguments has been invoked when trigger returns, and no job
\* is submitted to the worker backend.
C30_SyncExecution ==
    (/\ last.op = "trigger"
     /\ last.to = ToList(<<SYNC>>)
     /\ ~DelayAsked) =>
        /\ Submits = {}
        /\ last.exc = NoneV
        /\ \A h \in 1..Len(REGISTERED_SIGNALS[last.signal_name]) :
              check(REGISTERED_SIGNALS[last.signal_name][h], last.kwargs).status = "ok" =>
                  \E i \in Invokes : last.events[i].index = h

\* ------------------------------------------------------------------------
\* tasks.py lines 408-444: import_signals_and_functions under several
\* threads.  functools.lru_cache looks the cached result up, calls the
\* function when there is none and stores the result afterwards; it holds no
\* lock while the function runs.  import_module executes a module once, under
\* the interpreter's lock of that module: another thread importing the same
\* module waits until it is loaded.
\* The decorators each module executes: (signal path, queue).
Decorators(m) ==
    IF m = "app1.signals" THEN <<[path |-> "s1", queue |-> "celery"],
                                 [path |-> "s1", queue |-> "fast"]>>
    ELSE <<[path |-> "s2", queue |-> "celery"], [path |-> "s1", queue |-> "celery"]>>

\* the signal decorator executed by a module that is being imported
registered_by(registry, d) ==
    [registry EXCEPT ![d.path] =
        Append(@, Connection([params |-> Sig_opt, body |-> "return"], d.path, "everyone",
                             d.queue).connection)]

Registering == \E m \in ModuleNames : sys_modules[m].state = "loading"

\* line 217 (and 366, 449): the call goes through lru_cache
CallImport(t) ==
    /\ pc[t] = Idle
    /\ IF lru_cache
       THEN /\ pc' = [pc EXCEPT ![t] = [at |-> "lookup", i |-> 0]]
            /\ log' = log
       ELSE /\ pc' = [pc EXCEPT ![t] = [at |-> "import", i |-> 1]]
            /\ log' = Append(log, [type |-> "body", thread |-> t])
    /\ UNCHANGED <<WEBSOCKET_WORKERS, WINDOW_INFO_MIDDLEWARES, REGISTERED_SIGNALS,
                   REGISTERED_FUNCTIONS, submitted, cache, last, connVars, lru_cache, sys_modules, PROCESS_POOLS>>

\* lines 414-416 and 428-440: import_module of the next module.  A loaded
\* module is not executed again; a module another thread is loading is
\* waited for; otherwise the module starts executing (its first decorator).
ImportModule(t) ==
    /\ pc[t].at = "import" /\ pc[t].i <= Len(Modules)
    /\ \E m \in {Modules[pc[t].i]} :
        /\ sys_modules[m].state # "loading"
        /\ IF sys_modules[m].state = "loaded"
           THEN /\ pc' = [pc EXCEPT ![t] = [at |-> "import", i |-> pc[t].i + 1]]
                /\ UNCHANGED <<sys_modules, REGISTERED_SIGNALS>>
           ELSE /\ pc' = [pc EXCEPT ![t] = [at |-> "exec", i |-> pc[t].i]]
                /\ sys_modules' = [sys_modules EXCEPT ![m] = [state |-> "loading", owner |-> t]]
                /\ REGISTERED_SIGNALS' = registered_by(REGISTERED_SIGNALS, Decorators(m)[1])
    /\ UNCHANGED <<WEBSOCKET_WORKERS, WINDOW_INFO_MIDDLEWARES, REGISTERED_FUNCTIONS,
                   submitted, cache, last, connVars, lru_cache, log, PROCESS_POOLS>>

\* the rest of the module executes (its second decorator); it is loaded
ExecModule(t) ==
    /\ pc[t].at = "exec"
    /\ \E m \in {Modules[pc[t].i]} :
        /\ sys_modules' = [sys_modules EXCEPT ![m] = [state |-> "loaded", owner |-> 0]]
        /\ REGISTERED_SIGNALS' = registered_by(REGISTERED_SIGNALS, Decorators(m)[2])
    /\ pc' = [pc EXCEPT ![t] = [at |-> "import", i |-> pc[t].i + 1]]
    /\ UNCHANGED <<WEBSOCKET_WORKERS, WINDOW_INFO_MIDDLEWARES, REGISTERED_FUNCTIONS,
                   submitted, cache, last, connVars, lru_cache, log, PROCESS_POOLS>>

\* lines 441-444: the function returns and lru_cache stores its result
ReturnImport(t) ==
    /\ pc[t].at = "import" /\ pc[t].i > Len(Modules)
    /\ lru_cache' = TRUE
    /\ pc' = [pc EXCEPT ![t] = [at |-> "lookup", i |-> 0]]
    /\ UNCHANGED <<WEBSOCKET_WORKERS, WINDOW_INFO_MIDDLEWARES, REGISTERED_SIGNALS,
                   REGISTERED_FUNCTIONS, submitted, cache, last, connVars, sys_modules, log, PROCESS_POOLS>>

\* lines 238 and 261-264 (or 371-373): the caller reads REGISTERED_SIGNALS
Lookup(t) ==
    /\ pc[t].at = "lookup"
    /\ log' = Append(log, [type |-> "lookup", thread |-> t, registering |-> Registering,
                           found |-> Len(REGISTERED_SIGNALS["s1"])])
    /\ pc' = [pc EXCEPT ![t] = [at |-> "done", i |-> 0]]
    /\ UNCHANGED <<WEBSOCKET_WORKERS, WINDOW_INFO_MIDDLEWARES, REGISTERED_SIGNALS,
                   REGISTERED_FUNCTIONS, submitted, cache, last, connVars, lru_cache, sys_modules, PROCESS_POOLS>>

NextDiscovery ==
    \E t \in Threads :
        \/ CallImport(t)
        \/ ImportModule(t)
        \/ ExecModule(t)
        \/ ReturnImport(t)
        \/ Lookup(t)

SpecDiscovery == InitTopics /\ [][NextDiscovery]_vars

LogOf(type) == {i \in 1..Len(log) : log[i].type = type}

\* C31: the discovery body runs at most once in the process, and no caller
\* reads the registry while a module is still registering its handlers.
C31_SingleFlightDiscovery ==
    /\ Cardinality(LogOf("body")) <= 1
    /\ \A i \in LogOf("lookup") : ~log[i].registering

\* ------------------------------------------------------------------------
\* tasks.py lines 319-334: call_task under the thread or process backend,
\* called by several threads.  No lock is held between the test of line 320
\* and the assignment of line 332.
InitPools ==
    /\ WEBSOCKET_WORKERS \in {WORKER_THREAD, WORKER_PROCESS}
    /\ WINDOW_INFO_MIDDLEWARES = "default"
    /\ REGISTERED_SIGNALS = [p \in ValidPaths |-> <<>>]
    /\ REGISTERED_FUNCTIONS = [p \in ValidPaths |-> NoConnection]
    /\ submitted = <<>>
    /\ cache = EmptyCache
    /\ last = NoCall
    /\ InitProc

PoolQueues == {"celery", "fast"}

\* line 320: if queue not in _PROCESS_POOLS
TestPool(t, queue) ==
    /\ pc[t] = Idle
    /\ pc' = [pc EXCEPT ![t] =
                 [at |-> IF PROCESS_POOLS[queue] = <<>> THEN "create" ELSE "submit",
                  i |-> 0, queue |-> queue]]
    /\ UNCHANGED <<WEBSOCKET_WORKERS, WINDOW_INFO_MIDDLEWARES, REGISTERED_SIGNALS,
                   REGISTERED_FUNCTIONS, submitted, cache, last, connVars, lru_cache, sys_modules,
                   PROCESS_POOLS, log>>

\* lines 321-331: a new ThreadPool or Pool; pools are numbered as created
CreatePool(t) ==
    /\ pc[t].at = "create"
    /\ \E id \in {Cardinality(LogOf("Pool")) + 1} :
        /\ log' = Append(log, [type |-> "Pool", thread |-> t, queue |-> pc[t].queue,
                               pool |-> id])
        /\ pc' = [pc EXCEPT ![t] = [at |-> "store", i |-> id, queue |-> pc[t].queue]]
    /\ UNCHANGED <<WEBSOCKET_WORKERS, WINDOW_INFO_MIDDLEWARES, REGISTERED_SIGNALS,
                   REGISTERED_FUNCTIONS, submitted, cache, last, connVars, lru_cache, sys_modules,
                   PROCESS_POOLS>>

\* line 332: _PROCESS_POOLS[queue] = pool
StorePool(t) ==
    /\ pc[t].at = "store"
    /\ PROCESS_POOLS' = [PROCESS_POOLS EXCEPT ![pc[t].queue] = <<pc[t].i>>]
    /\ log' = Append(log, [type |-> "store", thread |-> t, queue |-> pc[t].queue,
                           pool |-> pc[t].i, replaced |-> PROCESS_POOLS[pc[t].queue]])
    /\ pc' = [pc EXCEPT ![t] = [at |-> "submit", i |-> 0, queue |-> pc[t].queue]]
    /\ UNCHANGED <<WEBSOCKET_WORKERS, WINDOW_INFO_MIDDLEWARES, REGISTERED_SIGNALS,
                   REGISTERED_FUNCTIONS, submitted, cache, last, connVars, lru_cache, sys_modules>>

\* lines 333-334: pool = _PROCESS_POOLS[queue]; pool.apply_async(...)
SubmitToPool(t) ==
    /\ pc[t].at = "submit"
    /\ log' = Append(log, [type |-> "apply_async", thread |-> t, queue |-> pc[t].queue,
                           pool |-> PROCESS_POOLS[pc[t].queue][1]])
    /\ pc' = [pc EXCEPT ![t] = [at |-> "done", i |-> 0]]
    /\ UNCHANGED <<WEBSOCKET_WORKERS, WINDOW_INFO_MIDDLEWARES, REGISTERED_SIGNALS,
                   REGISTERED_FUNCTIONS, submitted, cache, last, connVars, lru_cache, sys_modules,
                   PROCESS_POOLS>>

NextPools ==
    \E t \in Threads :
        \/ \E queue \in PoolQueues : TestPool(t, queue)
        \/ CreatePool(t)
        \/ StorePool(t)
        \/ SubmitToPool(t)

SpecPools == InitPools /\ [][NextPools]_vars

\* C32: for each queue at most one pool is ever created, a stored pool is
\* never replaced, and every job of the queue is submitted to that one pool.
C32_OnePoolPerQueue ==
    /\ \A i, j \in LogOf("Pool") : log[i].queue = log[j].queue => i = j
    /\ \A i \in LogOf("store") : log[i].replaced = <<>>
    /\ \A i, j \in LogOf("apply_async") : log[i].queue = log[j].queue => log[i].pool = log[j].pool

\* every handler of the executed job resolves, at execution, to a queue
\* that is not the queue of the job
NoQueueMatches ==
    \A h \in 1..Len(Handlers) : ResolvedQueue(Handlers[h], last.picks[h]) # last.job.queue

\* C33: a job submitted for a handler whose queue is drawn again at
\* execution invokes no handler, and reports no error, when no draw equals
\* the queue of the job (middlewares that define before_process).
C33_SilentSkip ==
    (/\ last.op = "process_task"
     /\ WINDOW_INFO_MIDDLEWARES = "hooked"
     /\ NoQueueMatches) =>
        /\ last.events = <<>>
        /\ last.exc = NoneV

\* the job of a trigger to [SERVER], submitted to the queue drawn for a
\* handler at the trigger, is executed and skipped by every handler
C33_Witness ==
    /\ last.op = "process_task"
    /\ WINDOW_INFO_MIDDLEWARES = "hooked"
    /\ last.job.to_server
    /\ last.job.serialized_client_topics = <<>>
    /\ last.job.queue \in RandomQueues
    /\ Len(Handlers) >= 1
    /\ \A h \in 1..Len(Handlers) : Handlers[h].queue = RANDOM
    /\ NoQueueMatches
    /\ last.events = <<>>
    /\ last.exc = NoneV

\* C34: a client that connects with a window key for which no subscription
\* record is stored is accepted and joins no topic group, so that no
\* trigger's message is forwarded to it.
C34_OptInSubscription ==
    (last.op = "connect" /\ ~StoredFor(last.window_key).present) =>
        /\ last.exc = NoneV
        /\ last.accepted
        /\ last.groups = {}

\* ------------------------------------------------------------------------
\* consumers.py lines 142-163: DFConsumer.receive on the text of a frame.
\* The forms of text_data, and what lines 144-151 do with each before
\* _trigger_signal is called: [exc, dispatch].
MsgForms == {"not json", "json number", "no signal", "no opts", "bad eta",
             "null countdown", "ok"}

receive_parse(form) ==
    CASE form = "not json" -> [exc |-> "JSONDecodeError", dispatch |-> FALSE]  \* line 144
      [] form = "json number" -> [exc |-> "TypeError", dispatch |-> FALSE]     \* line 146
      [] form = "no signal" -> [exc |-> NoneV, dispatch |-> FALSE]             \* line 146
      [] form = "no opts" -> [exc |-> "KeyError", dispatch |-> FALSE]          \* line 147
      [] form = "bad eta" -> [exc |-> "ValueError", dispatch |-> FALSE]        \* line 149
      [] form = "null countdown" -> [exc |-> "TypeError", dispatch |-> FALSE]  \* line 151
      [] OTHER -> [exc |-> NoneV, dispatch |-> TRUE]

\* variant: no except clause, the exception leaves receive
receive_except_absent(exc) == exc

\* lines 162-163: except Exception as e: logger.exception(e)
receive_except(exc) == NoneV

\* receive for a frame of the given form; signal_name, kwargs and opts are
\* those of a well-formed message
ReceiveText(request, form, signal_name, kwargs, opts) ==
    IF receive_parse(form).dispatch
    THEN Receive(request, signal_name, kwargs, opts)
    ELSE /\ Startup
         /\ \E r \in {receive_parse(form)} :
             last' = [op |-> "receive", exc |-> receive_except(r.exc), caught |-> r.exc,
                      events |-> IF r.exc = NoneV THEN <<>> ELSE <<Logged(r.exc)>>,
                      request |-> request, form |-> form]
         /\ UNCHANGED <<procVars, WEBSOCKET_WORKERS, WINDOW_INFO_MIDDLEWARES,
                        REGISTERED_FUNCTIONS, REGISTERED_SIGNALS, submitted, cache>>

RegisterGuarded ==
    \E allowed \in {"server_side", "everyone"} :
        Register([params |-> Sig_opt, body |-> "return"], "s1", allowed, "celery")

ReceiveTextAny ==
    \E request \in Requests, form \in MsgForms, signal_name \in SignalNames,
       opts \in {[k \in OptionNames |-> "0"], [k \in OptionNames |-> IF k = "eta" THEN "5" ELSE "0"]} :
        ReceiveText(request, form, signal_name, Kw(V_STR1), opts)

NextReceive == RegisterGuarded \/ ReceiveTextAny \/ RunAny

SpecReceive == Init /\ [][NextReceive]_vars

Malformed(call) == "form" \in DOMAIN call

\* the message names a signal without handler, or one whose handlers all
\* refuse a call from a client
UnknownOrUnauthorized(call, registry) ==
    /\ ~Malformed(call)
    /\ \A h \in 1..Len(registry[call.signal_name]) :
          Denies(registry[call.signal_name][h],
                 [window_info_dict |-> [user_pk |-> call.request.user_pk]])

NoFrame(events) == \A i \in 1..Len(events) : events[i].type # "publish"

\* C35: receive, for a message that is malformed, names an unknown signal
\* or is unauthorized, publishes nothing, raises nothing, and leaves the
\* consumer and its group membership as they were; the job of an
\* unauthorized message publishes nothing when it is executed.
C35_SilentRejection ==
    [][/\ (/\ last'.op = "receive"
           /\ Malformed(last') \/ UnknownOrUnauthorized(last', REGISTERED_SIGNALS)) =>
              /\ NoFrame(last'.events)
              /\ last'.exc = NoneV
              /\ connVars' = connVars
       /\ (/\ last'.op = "process_task"
           /\ last'.job.from_client
           /\ \A h \in 1..Len(REGISTERED_SIGNALS[last'.job.signal_name]) :
                 Denies(REGISTERED_SIGNALS[last'.job.signal_name][h], last'.job)) =>
              /\ NoFrame(last'.events)
              /\ InvokedIndexes' = {}
              /\ connVars' = connVars]_vars

\* a message with a non-integer eta: the ValueError is logged, not raised
C35_Witness ==
    /\ last.op = "receive"
    /\ Malformed(last)
    /\ last.form = "bad eta"
    /\ last.caught = "ValueError"
    /\ last.exc = NoneV
    /\ NoFrame(last.events)
    /\ REGISTERED_SIGNALS["s1"] # <<>>
    /\ consumer = NewConsumer
    /\ submitted = <<>>

\* ------------------------------------------------------------------------
\* a client connects with any combination of header, query parameter and
\* cookie, after views stored topics
ConnectScopes ==
    [header : {NoneV, "k1"}, query : {NoneV, "k2"}, cookie : {NoneV, "k1", "k2"}]

ConnectScopeAny == \E scope \in ConnectScopes : Connect(scope)

NextConnect == SetTopicsAny \/ ConnectScopeAny

SpecConnect == InitTopics /\ [][NextConnect]_vars

\* the key the connection is to use: header, else query parameter, else
\* cookie, else a new random key
ExpectedKey(scope) ==
    IF scope.header # NoneV THEN scope.header
    ELSE IF scope.query # NoneV THEN scope.query
    ELSE IF scope.cookie # NoneV THEN scope.cookie
    ELSE "random32"

\* C36: the window key of a connecting client is the key of the header if
\* present, else of the query parameter, else of the cookie, else a newly
\* minted random key, and the connection joins the topics stored for
\* exactly that key.
C36_ConnectionKeySelection ==
    last.op = "connect" =>
        /\ last.window_key = ExpectedKey(last.scope)
        /\ last.exc = NoneV
        /\ last.window_key \in WindowKeys =>
              last.groups = {valid_topic_name(x) : x \in StoredFor(last.window_key).topics}

\* the handlers (indexes in the list of the signal) a call invoked
InvokedIn(call) ==
    {call.events[i].index : i \in {j \in 1..Len(call.events) : call.events[j].type = "invoke"}}

\* no handler is invoked twice within the call
InvokedOnceIn(call) ==
    \A i, j \in 1..Len(call.events) :
        (/\ call.events[i].type = "invoke"
         /\ call.events[j].type = "invoke"
         /\ call.events[i].index = call.events[j].index) => i = j

StaticQueues == \A p \in ValidPaths : \A h \in 1..Len(REGISTERED_SIGNALS[p]) :
                    REGISTERED_SIGNALS[p][h].queue # RANDOM

\* C37: with handlers on static queues, one trigger leads to at most one
\* invocation of each handler of the signal: none is invoked twice by the
\* call itself (SYNC) or by one job, and a handler invoked by the call or by
\* a job is not invoked again by the job executed next.
C37_AtMostOneInvocationPerTrigger ==
    [][(StaticQueues /\ last.op \in {"trigger", "process_task"} /\ last'.op = "process_task") =>
          /\ InvokedOnceIn(last)
          /\ InvokedOnceIn(last')
          /\ InvokedIn(last) \cap InvokedIn(last') = {}]_vars

\* C38: validating the arguments for a handler leaves the kwargs mapping of
\* the caller as it was: after a trigger, and after the execution of a job,
\* the mapping still holds the raw arguments that were passed.
C38_ArgumentsNotAltered ==
    /\ last.op \in {"trigger", "receive"} => last.kwargs_after = last.kwargs
    /\ last.op = "process_task" => last.kwargs_after = last.job.kwargs

\* ------------------------------------------------------------------------
\* tasks.py lines 447-457: get_expected_queues.  RandomDynamicQueueName
\* implements get_available_queues (decorators.py lines 126-127).
get_expected_queues(registry) ==
    UNION {UNION {IF registry[p][h].queue = RANDOM THEN RandomQueues
                  ELSE {registry[p][h].queue} : h \in 1..Len(registry[p])} :
           p \in DOMAIN registry}

\* C39: every queue to which a trigger submits a job, the queue that
\* carries deferred client topics included, is one of get_expected_queues().
C39_AdvertisedQueuesCoverDispatched ==
    last.op = "trigger" =>
        \A i \in Submits : last.events[i].job.queue \in get_expected_queues(REGISTERED_SIGNALS)

\* ------------------------------------------------------------------------
\* The life of one connection: connect, the messages the channel layer
\* hands to it, disconnect.
\* variant: the layer hands a message to every channel
group_members_all(member_of, group) == TRUE

\* channel_layer.group_send (tasks.py lines 402-405) reaches the channels
\* that group_add put in the group (consumers.py lines 84-87) and that
\* group_discard has not removed (lines 133-134)
group_members(member_of, group) == group \in member_of

\* consumers.py lines 137-139: ws_message sends the message of each event
\* the layer hands to the connection
ws_message(member_of, events) ==
    [i \in 1..Len(SelectSeq(events, LAMBDA e : e.type = "publish"
                                               /\ group_members(member_of, e.group))) |->
        SelectSeq(events, LAMBDA e : e.type = "publish"
                                     /\ group_members(member_of, e.group))[i].message]

\* consumers.py lines 132-134: DFConsumer.disconnect
Disconnect ==
    /\ consumer.state \in {"open", "failed"}
    /\ layer_groups' = layer_groups \ consumer.topics
    /\ consumer' = [consumer EXCEPT !.state = "closed"]
    /\ last' = [op |-> "disconnect", exc |-> NoneV, events |-> <<>>]
    /\ UNCHANGED <<pc, lru_cache, sys_modules, PROCESS_POOLS, log,
                   WEBSOCKET_WORKERS, WINDOW_INFO_MIDDLEWARES, REGISTERED_FUNCTIONS,
                   REGISTERED_SIGNALS, submitted, cache>>

\* a trigger anywhere in the life of the connection; the messages it
\* publishes reach the consumer through the channel layer
TriggerClients(request, signal_name, to, kwargs) ==
    /\ last.op \in {"none", "set_websocket_topics", "connect", "disconnect"}
    /\ \E nd \in Choices(signal_name, to, NoOpts, request) :
        \E r \in {trigger_signal_async(cfg, REGISTERED_SIGNALS, request, signal_name, to,
                                        kwargs, NoOpts, FALSE, nd)} :
           /\ submitted' = JobsOf(r.events)
           /\ last' = [op |-> "trigger", exc |-> r.exc, events |-> r.events,
                       request |-> request, signal_name |-> signal_name, to |-> to,
                       kwargs |-> kwargs, opts |-> NoOpts, from_client |-> FALSE,
                       kwargs_after |-> r.kwargs, frames_before |-> consumer.frames,
                       state_before |-> consumer.state]
           /\ consumer' = [consumer EXCEPT !.frames = @ \o ws_message(layer_groups, r.events)]
    /\ UNCHANGED <<pc, lru_cache, sys_modules, PROCESS_POOLS, log, layer_groups,
                   WEBSOCKET_WORKERS, WINDOW_INFO_MIDDLEWARES, REGISTERED_FUNCTIONS,
                   REGISTERED_SIGNALS, cache>>

TriggerClientsAny ==
    \E request \in Requests, to \in {<<WINDOW>>, <<BROADCAST>>, <<WINDOW, SERVER>>} :
        TriggerClients(request, "s1", [shape |-> "list", items |-> to], Kw(V_STR1))

NextLifecycle == SetTopicsAny \/ ConnectAny \/ Disconnect \/ TriggerClientsAny

SpecLifecycle == InitTopics /\ [][NextLifecycle]_vars

\* the groups the connection joined when it connected
JoinedAtConnect == IF consumer.state = "new" THEN {} ELSE consumer.topics

====
